---- MODULE Spec2Model ----
(***************************************************************************)
(* A model of the embedding cache (python/db_utils.py), of the             *)
(* cache-aware re-identification job (python/reid_v2.py), of the detection *)
(* job (python/detection_dino.py) and of the worker pool of the CPU        *)
(* detection job (python/detection_dino_cpu.py) of ReWildID.               *)
(*                                                                         *)
(* Numbers.  A bounding-box coordinate is a count of tenths of a pixel     *)
(* (12 is 1.2 px), so that int() has something to truncate.  A vector      *)
(* component is a fixed-point count of 1/10000; the components that        *)
(* float32 can hold are the even counts, so the float32 cast is lossy.     *)
(* A dot product of two vectors is therefore a count of 1/100000000.       *)
(*                                                                         *)
(* Optional values.  Python's None is the empty sequence None, a present   *)
(* value v is the one-element sequence Some(v).                            *)
(***************************************************************************)
EXTENDS Integers, Sequences, FiniteSets, TLC

VARIABLES
    \* ---- the SQLite database file shared by every EmbeddingCache ----
    db,             \* the rows of table embeddings
    nextId,         \* the next AUTOINCREMENT id
    \* ---- a client of the cache API (specification SpecCache) ----
    ret,            \* the last call of the client: its name, arguments, result
    history,        \* the items committed by the client's stores, in order
    \* ---- one run of reid_v2.run (specification Spec) ----
    pc,             \* where the run is
    detections,     \* input_data['detections']
    batch_size,     \* the batch_size argument
    batch_size_type,\* "int", or "str" when main.py passed the argument on as typed
    cacheMode,      \* "ok", "nopath" (no db_path) or "raises" (constructor raises)
    badImages,      \* the image files that fail to load
    cache,          \* the local variable cache: TRUE for an EmbeddingCache, FALSE for None
    cached_reid,    \* key -> final embedding found in the cache
    has_raw,        \* the detections (indices) that need the adapter only
    needs_full,     \* the detections (indices) that need the full model
    detection_ids,  \* the ids, a failed one replaced by None
    raw_embeddings, \* index -> embedding, from the adapter-only path
    full_embeddings,\* index -> embedding, from the full model
    loop,           \* the index of the running loop (detection or batch start)
    all_embeddings, \* the merged list handed to the distance matrix
    output,         \* the JSON document written to output_path (None before)
    stdout,         \* the machine-readable lines printed so far
    trace,          \* what the run did: cache calls, model calls, clustering calls
    \* ---- one run of detection_dino.run (specification Spec) ----
    image_bbox_pairs, \* all_image_bbox_pairs: (filepath, normalized bbox)
    image_id_map,     \* the files the manifest maps to a database image id
    to_process,       \* the crops (indices) the first pass did not find cached
    all_features,     \* one raw feature per crop, None until known
    cached_count,     \* the crops served from the cache
    \* ---- compute_distance_matrix and process_dist_mat_v2 called twice on
    \*      one list of embeddings (specification SpecCluster) ----
    cluster_pc,       \* where the caller is
    emb_input,        \* the embeddings, one unit vector per row
    dist_matrix,      \* the masked distance matrix (empty before it is computed)
    keys_now,         \* the array keys of the running call
    row_now,          \* the rows the loop of the running call has processed
    keys_log,         \* keys after every row step of the running call
    output_dict,      \* what the running call returned (None before)
    run_no,           \* 1 for the first call on the matrix, 2 for the second
    first_run,        \* keys_log and output_dict of the first call
    \* ---- two EmbeddingCache instances, each in its own process, on one
    \*      database file (specification SpecInstances) ----
    inst,             \* per instance: the running call, its connections, its
                      \* uncommitted transaction, how its last call ended
    \* ---- process_images_with_pool of detection_dino_cpu.py and its worker
    \*      processes (specification SpecPool) ----
    pool_pc,          \* where the parent process is
    total_images,     \* len(image_files)
    counter,          \* counter.value, held by the manager process
    lock,             \* the image whose task holds the manager's lock, 0 if free
    task,             \* per image: where worker_process is, and the value its
                      \* last read of counter.value returned
    pool_stdout       \* the lines that have reached standard output, in order

cacheVars == <<db, nextId>>
clientVars == <<ret, history>>
runVars == <<pc, detections, batch_size, batch_size_type, cacheMode, badImages,
             cache, cached_reid, has_raw, needs_full, detection_ids, raw_embeddings, full_embeddings,
             loop, all_embeddings, output, stdout, trace>>
detectVars == <<image_bbox_pairs, image_id_map, to_process, all_features,
                cached_count>>
clusterVars == <<cluster_pc, emb_input, dist_matrix, keys_now, row_now, keys_log,
                 output_dict, run_no, first_run>>
\* The variables of the specifications that run neither the cache client nor
\* a job.
poolVars == <<pool_pc, total_images, counter, lock, task, pool_stdout>>
auxVars == <<clusterVars, inst, poolVars>>
vars == <<db, nextId, ret, history, pc, detections, batch_size, batch_size_type,
          cacheMode,
          badImages, cache, cached_reid, has_raw, needs_full, detection_ids,
          raw_embeddings, full_embeddings, loop, all_embeddings, output, stdout,
          trace, image_bbox_pairs, image_id_map, to_process, all_features,
          cached_count, cluster_pc, emb_input, dist_matrix, keys_now, row_now,
          keys_log, output_dict, run_no, first_run, inst, pool_pc, total_images,
          counter, lock, task, pool_stdout>>

-----------------------------------------------------------------------------
(* Bounds of the model. *)

\* The most rows the client of SpecCache ever inserts (the AUTOINCREMENT cap).
MaxRows == 2
\* The longest item list the client passes to store_embeddings_batch.
MaxBatchItems == 2

-----------------------------------------------------------------------------
(* Helpers. *)

None == << >>
Some(v) == << v >>

Range(s) == { s[i] : i \in 1..Len(s) }

\* The sequences over S of length at most n.
SeqUpTo(S, n) == UNION { [1..k -> S] : k \in 0..n }

\* dict[key] = value
Put(dict, key, value) ==
    [k \in DOMAIN dict \cup {key} |-> IF k = key THEN value ELSE dict[k]]

-----------------------------------------------------------------------------
(* python/config/config.py *)

RAW_EMBEDDING_TYPE == "dinov3_raw"
REID_EMBEDDING_PREFIX == "dinov3_reid_"
RAW_FOR_ADAPTER_TYPE == "dinov3_raw_disabled"

-----------------------------------------------------------------------------
(* python/db_utils.py: class EmbeddingCache *)

\* A variant of IntOf that rounds to the nearest integer instead.
IntRound(t) == IF t >= 0 THEN (t + 5) \div 10 ELSE -((5 - t) \div 10)

\* Python's int() on a float: truncation toward zero.  Coordinates are in
\* tenths of a pixel.
IntOf(t) == IF t >= 0 THEN t \div 10 ELSE -((-t) \div 10)

\* f"{int(bbox[0])}_{int(bbox[1])}_{int(bbox[2])}_{int(bbox[3])}"
bbox_to_hash(bbox) ==
    ToString(IntOf(bbox[1])) \o "_" \o ToString(IntOf(bbox[2])) \o "_"
        \o ToString(IntOf(bbox[3])) \o "_" \o ToString(IntOf(bbox[4]))

\* embedding.astype(np.float32): each component to the nearest float32 below.
AsFloat32(x) == 2 * (x \div 2)

\* embedding.astype(np.float32).tobytes(): the blob of float32 components.
ToBytes(embedding) == [i \in 1..Len(embedding) |-> AsFloat32(embedding[i])]

\* np.frombuffer(blob, dtype=np.float32)
FromBuffer(blob) == blob

\* The rows a SELECT ... WHERE image_id = ? AND bbox_hash = ? AND
\* embedding_type = ? matches.
SelectRows(rows, image_id, bbox_hash, embedding_type) ==
    { r \in rows : /\ r.image_id = image_id
                   /\ r.bbox_hash = bbox_hash
                   /\ r.embedding_type = embedding_type }

\* INSERT INTO embeddings with no conflict resolution and no unique index.
InsertPlain(rows, id, image_id, bbox_hash, embedding_type, blob) ==
    rows \cup { [id |-> id, image_id |-> image_id, bbox_hash |-> bbox_hash,
                 embedding_type |-> embedding_type, embedding |-> blob] }

\* INSERT OR IGNORE: a row that conflicts with an existing one is dropped.
InsertOrIgnore(rows, id, image_id, bbox_hash, embedding_type, blob) ==
    IF SelectRows(rows, image_id, bbox_hash, embedding_type) # {}
    THEN rows
    ELSE rows \cup { [id |-> id, image_id |-> image_id, bbox_hash |-> bbox_hash,
                      embedding_type |-> embedding_type, embedding |-> blob] }

\* INSERT OR REPLACE INTO embeddings under the unique index
\* idx_embeddings_lookup(image_id, bbox_hash, embedding_type): the rows that
\* conflict with the new one are deleted, then the new row is inserted.
\* (Column created_at is written and never read by the repository: the rows
\* of the model leave it out.)
InsertOrReplace(rows, id, image_id, bbox_hash, embedding_type, blob) ==
    (rows \ SelectRows(rows, image_id, bbox_hash, embedding_type))
        \cup { [id |-> id, image_id |-> image_id, bbox_hash |-> bbox_hash,
                 embedding_type |-> embedding_type, embedding |-> blob] }

\* get_embedding: cursor.fetchone() of the SELECT, decoded, or None.
get_embedding(rows, image_id, bbox, embedding_type) ==
    LET found == SelectRows(rows, image_id, bbox_to_hash(bbox), embedding_type)
    IN  IF found # {}
        THEN Some(FromBuffer((CHOOSE r \in found : TRUE).embedding))
        ELSE None

\* A variant of BatchSelect that keeps a None entry for an item that has no
\* record.
RECURSIVE BatchSelectWithPlaceholders(_, _, _, _, _)
BatchSelectWithPlaceholders(result, rows, items, k, embedding_type) ==
    IF k > Len(items) THEN result
    ELSE LET bbox_hash == bbox_to_hash(items[k][2])
             found == SelectRows(rows, items[k][1], bbox_hash, embedding_type)
             key == ToString(items[k][1]) \o ":" \o bbox_hash
         IN  BatchSelectWithPlaceholders(
                Put(result, key,
                    IF found # {}
                    THEN FromBuffer((CHOOSE r \in found : TRUE).embedding)
                    ELSE None),
                rows, items, k + 1, embedding_type)

\* The loop of get_embeddings_batch over items k..Len(items): an item is
\* <<image_id, bbox>>; result[f"{image_id}:{bbox_hash}"] is set when
\* fetchone() returns a row.
RECURSIVE BatchSelect(_, _, _, _, _)
BatchSelect(result, rows, items, k, embedding_type) ==
    IF k > Len(items) THEN result
    ELSE LET bbox_hash == bbox_to_hash(items[k][2])
             found == SelectRows(rows, items[k][1], bbox_hash, embedding_type)
             key == ToString(items[k][1]) \o ":" \o bbox_hash
         IN  BatchSelect(
                IF found # {}
                THEN Put(result, key,
                         FromBuffer((CHOOSE r \in found : TRUE).embedding))
                ELSE result,
                rows, items, k + 1, embedding_type)

\* get_embeddings_batch: {} for an empty list, else the loop.
get_embeddings_batch(rows, items, embedding_type) ==
    IF Len(items) = 0 THEN << >>
    ELSE BatchSelect(<< >>, rows, items, 1, embedding_type)

\* The loop of store_embeddings_batch over items k..Len(items), inside one
\* transaction: st is [rows, nextId]; an item is <<image_id, bbox, embedding>>.
RECURSIVE BatchInsert(_, _, _, _)
BatchInsert(st, items, k, embedding_type) ==
    IF k > Len(items) THEN st
    ELSE BatchInsert(
            [rows |-> InsertOrReplace(st.rows, st.nextId, items[k][1],
                                      bbox_to_hash(items[k][2]), embedding_type,
                                      ToBytes(items[k][3])),
             nextId |-> st.nextId + 1],
            items, k + 1, embedding_type)

\* store_embeddings_batch: nothing for an empty list, else the loop and commit.
store_embeddings_batch(st, items, embedding_type) ==
    IF Len(items) = 0 THEN st
    ELSE BatchInsert(st, items, 1, embedding_type)

\* count_embeddings: `if embedding_type:` is false for None and for "".
count_embeddings(rows, embedding_type) ==
    IF embedding_type # ""
    THEN Cardinality({ r \in rows : r.embedding_type = embedding_type })
    ELSE Cardinality(rows)

-----------------------------------------------------------------------------
(* python/reid_v2.py: the networks, as fixed stand-ins of opaque functions *)

\* check_day_night of the crop of an image: 1 for day, 0 for night.
check_day_night(image) == IF image = 2 THEN 0 ELSE 1

\* dino_model.get_intermediate_layers + create_linear_input on a crop: the
\* raw backbone feature.  load_and_crop_image crops at int() of the box.
Backbone(image, bbox) ==
    IF IntOf(bbox[1]) = 1
    THEN (IF image = 1 THEN <<8, 2>> ELSE <<8, 4>>)
    ELSE (IF image = 1 THEN <<2, 8>> ELSE <<8, 2>>)

\* The adapter mix and the final normalisation of CustomDino.forward and
\* CustomDino.forward_from_raw, on one sample: a unit vector (float32).
AdapterMix(base, is_day) ==
    IF base[2] <= 2 THEN (IF is_day = 1 THEN <<10000, 0>> ELSE <<9998, 200>>)
    ELSE IF base[2] <= 4 THEN (IF is_day = 1 THEN <<9998, 200>> ELSE <<0, 10000>>)
    ELSE <<200, 9998>>

\* CustomDino.forward on one crop.
forward(image, bbox, is_day) == AdapterMix(Backbone(image, bbox), is_day)

\* CustomDino.forward_from_raw on one cached raw feature.
forward_from_raw(base_features, is_day) == AdapterMix(base_features, is_day)

-----------------------------------------------------------------------------
(* python/reid_v2.py: compute_distance_matrix and process_dist_mat_v2 *)

\* 1.0 and np.inf in the unit of a dot product; the tolerance 0.00065.
One == 100000000
Inf == 1000000000
Tolerance == 65000

Dot(u, v) == IF Len(u) = 0 THEN 0
             ELSE LET P[i \in 1..Len(u)] ==
                        u[i] * v[i] + (IF i = 1 THEN 0 ELSE P[i - 1])
                  IN  P[Len(u)]

\* np.min of a non-empty row.
MinOf(row) == CHOOSE m \in Range(row) : \A x \in Range(row) : m <= x

\* np.argmin: the first position of the minimum.
ArgMin(row) ==
    CHOOSE j \in 1..Len(row) :
        /\ row[j] = MinOf(row)
        /\ \A k \in 1..(j - 1) : row[k] # MinOf(row)

\* A variant of compute_distance_matrix that masks the similarities E E^T
\* themselves.
similarity_matrix(embeddings) ==
    LET n == Len(embeddings)
        sim == [r \in 1..n |-> [c \in 1..n |-> Dot(embeddings[r], embeddings[c])]]
    IN  [r \in 1..n |-> [c \in 1..n |->
            IF c = ArgMin(sim[r]) THEN Inf ELSE sim[r][c]]]

\* A variant of compute_distance_matrix that masks the diagonal.
distance_matrix_without_self(embeddings) ==
    LET n == Len(embeddings)
    IN  [r \in 1..n |-> [c \in 1..n |->
            IF c = r THEN Inf ELSE One - Dot(embeddings[r], embeddings[c])]]

\* compute_distance_matrix: 1 - E E^T, then the first minimum of each row
\* overwritten with inf.
compute_distance_matrix(embeddings) ==
    LET n == Len(embeddings)
        dist == [r \in 1..n |-> [c \in 1..n |->
                    One - Dot(embeddings[r], embeddings[c])]]
    IN  [r \in 1..n |-> [c \in 1..n |->
            IF c = ArgMin(dist[r]) THEN Inf ELSE dist[r][c]]]

\* np.abs(row - min_dist) <= 0.00065; inf - inf is nan and compares False,
\* inf - x is inf.
Candidates(row) ==
    { j \in 1..Len(row) :
        /\ row[j] # Inf
        /\ row[j] - MinOf(row) <= Tolerance
        /\ MinOf(row) - row[j] <= Tolerance }

\* np.max(keys)
MaxKey(keys) == CHOOSE m \in Range(keys) : \A x \in Range(keys) : x <= m

\* A variant of RowStep whose assigned-row branch merges clusters: every
\* index that holds the id of a candidate is re-labelled too.
RowStepMerging(keys, row, r) ==
    LET cand == Candidates(row)
        current_counter == MaxKey(keys)
        assigned == { keys[j] : j \in cand } \ {-1}
    IN  IF keys[r] # -1
        THEN [j \in 1..Len(keys) |->
                IF j \in cand \/ keys[j] \in assigned THEN keys[r] ELSE keys[j]]
        ELSE IF assigned = {}
        THEN [j \in 1..Len(keys) |->
                IF j = r \/ j \in cand THEN current_counter + 1 ELSE keys[j]]
        ELSE LET min_pos_key == CHOOSE m \in assigned : \A x \in assigned : m <= x
             IN  [j \in 1..Len(keys) |->
                    IF j = r \/ j \in cand THEN min_pos_key ELSE keys[j]]

\* A variant of RowStep whose unassigned-row branch takes the largest id
\* found among the candidates.
RowStepTakingMax(keys, row, r) ==
    LET cand == Candidates(row)
        current_counter == MaxKey(keys)
        assigned == { keys[j] : j \in cand } \ {-1}
    IN  IF keys[r] # -1
        THEN [j \in 1..Len(keys) |-> IF j \in cand THEN keys[r] ELSE keys[j]]
        ELSE IF assigned = {}
        THEN [j \in 1..Len(keys) |->
                IF j = r \/ j \in cand THEN current_counter + 1 ELSE keys[j]]
        ELSE LET max_pos_key == CHOOSE m \in assigned : \A x \in assigned : x <= m
             IN  [j \in 1..Len(keys) |->
                    IF j = r \/ j \in cand THEN max_pos_key ELSE keys[j]]

\* One pass of the loop over the rows: the keys after row r.
RowStep(keys, row, r) ==
    LET cand == Candidates(row)
        current_counter == MaxKey(keys)
        assigned == { keys[j] : j \in cand } \ {-1}
    IN  IF keys[r] # -1
        THEN [j \in 1..Len(keys) |-> IF j \in cand THEN keys[r] ELSE keys[j]]
        ELSE IF assigned = {}
        THEN [j \in 1..Len(keys) |->
                IF j = r \/ j \in cand THEN current_counter + 1 ELSE keys[j]]
        ELSE LET min_pos_key == CHOOSE m \in assigned : \A x \in assigned : m <= x
             IN  [j \in 1..Len(keys) |->
                    IF j = r \/ j \in cand THEN min_pos_key ELSE keys[j]]

RECURSIVE KeysAfter(_, _)
KeysAfter(dist_mat, r) ==
    IF r = 0 THEN [j \in 1..Len(dist_mat) |-> -1]
    ELSE RowStep(KeysAfter(dist_mat, r - 1), dist_mat[r], r)

\* A variant of Where that stops at the first position that holds key k.
RECURSIVE WhereFirst(_, _, _)
WhereFirst(keys, k, from) ==
    IF from > Len(keys) THEN << >>
    ELSE IF keys[from] = k THEN <<from>> ELSE WhereFirst(keys, k, from + 1)

\* The positions (1-based) that hold key k, ascending: np.where(keys == k)[0].
RECURSIVE Where(_, _, _)
Where(keys, k, from) ==
    IF from > Len(keys) THEN << >>
    ELSE (IF keys[from] = k THEN <<from>> ELSE << >>) \o Where(keys, k, from + 1)

\* The compaction loop: output_dict as the list of its values, entry aid + 1
\* holding the positions of cluster aid.
RECURSIVE Compact(_, _, _)
Compact(keys, k, max_key) ==
    IF k > max_key THEN << >>
    ELSE (IF k \in Range(keys) THEN << Where(keys, k, 1) >> ELSE << >>)
            \o Compact(keys, k + 1, max_key)

process_dist_mat_v2(dist_mat) ==
    LET keys == KeysAfter(dist_mat, Len(dist_mat))
        min_key == CHOOSE m \in Range(keys) : \A x \in Range(keys) : m <= x
    IN  Compact(keys, min_key, MaxKey(keys))

\* format_output_with_detection_ids: ids is the list of surviving ids.
format_output_with_detection_ids(ids, cluster_dict) ==
    [individuals |->
        [c \in 1..Len(cluster_dict) |->
            [name |-> "ID-" \o ToString(c - 1),
             detection_ids |-> [k \in 1..Len(cluster_dict[c]) |->
                                    ids[cluster_dict[c][k]]]]]]

-----------------------------------------------------------------------------
(* The values the variables of a job hold while the job does not run. *)

DetectIdle ==
    /\ image_bbox_pairs = << >>
    /\ image_id_map = {}
    /\ to_process = << >>
    /\ all_features = << >>
    /\ cached_count = 0

RunIdle ==
    /\ pc = "idle"
    /\ detections = << >>
    /\ batch_size = 1
    /\ batch_size_type = "int"
    /\ cacheMode = "ok"
    /\ badImages = {}
    /\ cache = FALSE
    /\ cached_reid = << >>
    /\ has_raw = << >>
    /\ needs_full = << >>
    /\ detection_ids = << >>
    /\ raw_embeddings = << >>
    /\ full_embeddings = << >>
    /\ loop = 0
    /\ all_embeddings = << >>
    /\ output = None
    /\ stdout = << >>
    /\ trace = << >>

ClusterIdle ==
    /\ cluster_pc = "idle"
    /\ emb_input = << >>
    /\ dist_matrix = << >>
    /\ keys_now = << >>
    /\ row_now = 0
    /\ keys_log = << >>
    /\ output_dict = None
    /\ run_no = 1
    /\ first_run = None

InstancesIdle == inst = << >>

PoolIdle ==
    /\ pool_pc = "idle"
    /\ total_images = 0
    /\ counter = 0
    /\ lock = 0
    /\ task = << >>
    /\ pool_stdout = << >>

AuxIdle == ClusterIdle /\ InstancesIdle /\ PoolIdle

-----------------------------------------------------------------------------
(* SpecCache: a client calling the methods of one EmbeddingCache on a      *)
(* database that starts with the empty table _init_table creates.          *)

ClientImages == {1, 2}
\* [1.2, 3.7, 4.1, 5.9] and [1, 3, 4, 5]
ClientBoxes == { <<12, 37, 41, 59>>, <<10, 30, 40, 50>> }
ClientTypes == { RAW_EMBEDDING_TYPE, REID_EMBEDDING_PREFIX \o "stoat" }
\* <<3, 4>> has a component float32 cannot hold; <<6, 8>> has none.
ClientVectors == { <<3, 4>>, <<6, 8>> }

NoCall == [op |-> "none", args |-> << >>, value |-> << >>]

InitCache ==
    /\ db = {}
    /\ nextId = 1
    /\ ret = NoCall
    /\ history = << >>
    /\ RunIdle
    /\ DetectIdle
    /\ AuxIdle

\* A variant of CallGetEmbedding that writes the row it read again, as a
\* cache that records the time of the last use would.
CallGetEmbeddingTouching ==
    \E image_id \in ClientImages, bbox \in ClientBoxes, t \in ClientTypes :
        /\ ret' = [op |-> "get_embedding", args |-> <<image_id, bbox, t>>,
                   value |-> get_embedding(db, image_id, bbox, t)]
        /\ LET found == SelectRows(db, image_id, bbox_to_hash(bbox), t)
           IN  IF found # {}
               THEN /\ db' = InsertOrReplace(db, nextId, image_id,
                                             bbox_to_hash(bbox), t,
                                             (CHOOSE r \in found : TRUE).embedding)
                    /\ nextId' = nextId + 1
               ELSE UNCHANGED cacheVars
        /\ UNCHANGED <<history, runVars, detectVars, auxVars>>

\* cache.get_embedding(image_id, bbox, embedding_type)
CallGetEmbedding ==
    \E image_id \in ClientImages, bbox \in ClientBoxes, t \in ClientTypes :
        /\ ret' = [op |-> "get_embedding", args |-> <<image_id, bbox, t>>,
                   value |-> get_embedding(db, image_id, bbox, t)]
        /\ UNCHANGED <<cacheVars, history, runVars, detectVars, auxVars>>

\* cache.get_embeddings_batch(items, embedding_type)
CallGetEmbeddingsBatch ==
    \E n \in 0..MaxBatchItems, t \in ClientTypes :
    \E items \in [1..n -> ClientImages \X ClientBoxes] :
        /\ ret' = [op |-> "get_embeddings_batch", args |-> <<items, t>>,
                   value |-> get_embeddings_batch(db, items, t)]
        /\ UNCHANGED <<cacheVars, history, runVars, detectVars, auxVars>>

\* cache.store_embedding(image_id, bbox, embedding_type, embedding)
CallStoreEmbedding ==
    \E image_id \in ClientImages, bbox \in ClientBoxes, t \in ClientTypes,
       embedding \in ClientVectors :
        /\ nextId <= MaxRows
        /\ db' = InsertOrReplace(db, nextId, image_id, bbox_to_hash(bbox), t,
                                 ToBytes(embedding))
        /\ nextId' = nextId + 1
        /\ ret' = [op |-> "store_embedding", args |-> << >>, value |-> None]
        /\ history' = Append(history, <<image_id, bbox, t, embedding>>)
        /\ UNCHANGED <<runVars, detectVars, auxVars>>

\* cache.store_embeddings_batch(items, embedding_type)
CallStoreEmbeddingsBatch ==
    \E n \in 0..MaxBatchItems, t \in ClientTypes :
        /\ nextId + n <= MaxRows + 1
        /\ \E items \in [1..n -> ClientImages \X ClientBoxes \X ClientVectors] :
            /\ LET st == store_embeddings_batch([rows |-> db, nextId |-> nextId],
                                                items, t)
               IN  /\ db' = st.rows
                   /\ nextId' = st.nextId
            /\ history' = history \o [k \in 1..n |->
                                        <<items[k][1], items[k][2], t, items[k][3]>>]
        /\ ret' = [op |-> "store_embeddings_batch", args |-> << >>, value |-> None]
        /\ UNCHANGED <<runVars, detectVars, auxVars>>

\* cache.count_embeddings(embedding_type); "" stands for the omitted argument.
CallCountEmbeddings ==
    \E t \in ClientTypes \cup {""} :
        /\ ret' = [op |-> "count_embeddings", args |-> <<t>>,
                   value |-> Some(count_embeddings(db, t))]
        /\ UNCHANGED <<cacheVars, history, runVars, detectVars, auxVars>>

NextCache ==
    \/ CallGetEmbedding
    \/ CallStoreEmbedding
    \/ CallStoreEmbeddingsBatch
    \/ CallCountEmbeddings

SpecCache == InitCache /\ [][NextCache]_vars

-----------------------------------------------------------------------------
(* SpecLookup: a client calling the three lookups of one EmbeddingCache on *)
(* a table that earlier stores have filled.                                *)

\* The keys the earlier stores went to, in the order of the first store to
\* each: both boxes of ClientBoxes have the hash 1_3_4_5.
StoredKeys ==
    << <<1, RAW_EMBEDDING_TYPE>>, <<2, RAW_EMBEDDING_TYPE>>,
       <<1, REID_EMBEDDING_PREFIX \o "stoat">>,
       <<2, REID_EMBEDDING_PREFIX \o "stoat">> >>

\* The table that holds, for every position k of the domain of stored, the
\* float32 blob of the vector stored[k] under the key StoredKeys[k].
TableOf(stored) ==
    { [id |-> Cardinality({ j \in DOMAIN stored : j <= k }),
       image_id |-> StoredKeys[k][1],
       bbox_hash |-> bbox_to_hash(<<12, 37, 41, 59>>),
       embedding_type |-> StoredKeys[k][2],
       embedding |-> ToBytes(stored[k])] :
      k \in DOMAIN stored }

InitLookup ==
    /\ \E keys \in SUBSET (1..Len(StoredKeys)) :
       \E stored \in [keys -> ClientVectors] :
          /\ db = TableOf(stored)
          /\ nextId = Cardinality(keys) + 1
    /\ ret = NoCall
    /\ history = << >>
    /\ RunIdle
    /\ DetectIdle
    /\ AuxIdle

NextLookup ==
    \/ CallGetEmbedding
    \/ CallGetEmbeddingsBatch
    \/ CallCountEmbeddings

SpecLookup == InitLookup /\ [][NextLookup]_vars

-----------------------------------------------------------------------------
(* Spec: one run of reid_v2.run(input_json_path, batch_size).              *)

\* The most detections in the input document.
MaxDet == 5
\* The largest batch_size argument.
MaxBatchSize == 2

\* input_data.get('species'): the final variant is dinov3_reid_<species>.
reid_embedding_type == REID_EMBEDDING_PREFIX \o "stoat"
\* A variant of raw_embedding_type: the variant the detection stage writes.
raw_embedding_type_of_detection == RAW_EMBEDDING_TYPE

\* raw_embedding_type = RAW_FOR_ADAPTER_TYPE, a name no stage writes.
raw_embedding_type == RAW_FOR_ADAPTER_TYPE

\* The i-th detection of the input.  Image files are numbered; a detection
\* that carries an image_id carries the number of its image.  Detections 1
\* and 3 are boxes on image 1 that differ as floats and truncate alike.
InputBox(i) ==
    IF i = 1 THEN <<12, 37, 41, 59>>
    ELSE IF i \in {2, 3} THEN <<10, 30, 40, 50>>
    ELSE <<75, 30, 90, 50>>

InputDetection(i, with_image_id) ==
    [detection_id |-> 40 + i,
     image_path |-> 2 - (i % 2),
     bbox |-> InputBox(i),
     image_id |-> IF with_image_id THEN Some(2 - (i % 2)) ELSE None]

\* What the database may hold for one crop when the run starts: nothing, the
\* raw feature the detection stage stored, a record of the variant the
\* dispatcher looks up as intermediate, a final record of an earlier run,
\* or a final record and an intermediate one.
CropStatus == {"none", "raw", "raw_for_adapter", "reid", "reid+raw_for_adapter"}

RowsOfCrop(image, status, base_id) ==
    LET bbox == <<10, 30, 40, 50>>
        row(id, t, v) == [id |-> id, image_id |-> image,
                          bbox_hash |-> bbox_to_hash(bbox),
                          embedding_type |-> t, embedding |-> ToBytes(v)]
    IN  (IF status \in {"reid", "reid+raw_for_adapter"}
         THEN { row(base_id, reid_embedding_type,
                    forward(image, bbox, check_day_night(image))) }
         ELSE {})
        \cup (IF status = "raw"
              THEN { row(base_id + 1, RAW_EMBEDDING_TYPE, Backbone(image, bbox)) }
              ELSE {})
        \cup (IF status \in {"raw_for_adapter", "reid+raw_for_adapter"}
              THEN { row(base_id + 2, RAW_FOR_ADAPTER_TYPE, Backbone(image, bbox)) }
              ELSE {})

\* The start of a run of reid_v2.run whose batch_size argument has one of
\* the given types.
InitRun(types) ==
    /\ DetectIdle
    /\ AuxIdle
    /\ \E s1 \in CropStatus, s2 \in CropStatus :
          db = RowsOfCrop(1, s1, 1) \cup RowsOfCrop(2, s2, 4)
    /\ nextId = 7
    /\ ret = NoCall
    /\ history = << >>
    /\ pc = "begin"
    /\ \E n \in 0..MaxDet : \E ids \in [1..n -> BOOLEAN] :
          detections = [i \in 1..n |-> InputDetection(i, ids[i])]
    /\ batch_size \in 1..MaxBatchSize
    /\ batch_size_type \in types
    /\ batch_size_type = "str" => batch_size = MaxBatchSize
    /\ cacheMode \in {"ok", "nopath", "raises"}
    \* a database that is not opened is not looked at: one content is enough
    /\ cacheMode # "ok" =>
          db = RowsOfCrop(1, "reid+raw_for_adapter", 1) \cup RowsOfCrop(2, "raw", 4)
    /\ badImages \in SUBSET {1, 2}
    /\ cache = FALSE
    /\ cached_reid = << >>
    /\ has_raw = << >>
    /\ needs_full = << >>
    /\ detection_ids = << >>
    /\ raw_embeddings = << >>
    /\ full_embeddings = << >>
    /\ loop = 0
    /\ all_embeddings = << >>
    /\ output = None
    /\ stdout = << >>
    /\ trace = << >>

\* A run started by reid_v2's own command line, which converts the argument
\* with int(), or called with the default.
InitReid == InitRun({"int"})

\* print("STATUS: BEGIN") and the reading of the input document.
Begin ==
    /\ pc = "begin"
    /\ stdout' = Append(stdout, "STATUS: BEGIN")
    /\ pc' = "cache_init"
    /\ UNCHANGED <<cacheVars, clientVars, auxVars, detectVars,
                   detections, batch_size, batch_size_type, cacheMode,
                   badImages, cache, cached_reid, has_raw, needs_full,
                   detection_ids, raw_embeddings, full_embeddings, loop,
                   all_embeddings, output, trace>>

\* The input document cannot be read or lacks a key: run raises after
\* STATUS: BEGIN.
ReadInputRaises ==
    /\ pc = "begin"
    /\ stdout' = Append(stdout, "STATUS: BEGIN")
    /\ pc' = "raised"
    /\ UNCHANGED <<cacheVars, clientVars, auxVars, detectVars,
                   detections, batch_size, batch_size_type, cacheMode,
                   badImages, cache, cached_reid, has_raw, needs_full,
                   detection_ids, raw_embeddings, full_embeddings, loop,
                   all_embeddings, output, trace>>

\* cache = None; if db_path: try EmbeddingCache(db_path) except: cache = None.
\* On a database that has the table, _init_table changes no row.
CacheInit ==
    /\ pc = "cache_init"
    /\ cache' = (cacheMode = "ok")
    /\ trace' = IF cacheMode = "nopath" THEN trace
                ELSE Append(trace, [op |-> "EmbeddingCache",
                                        args |-> <<cacheMode>>])
    /\ pc' = "shortcuts"
    /\ UNCHANGED <<cacheVars, clientVars, auxVars, detectVars,
                   detections, batch_size, batch_size_type, cacheMode,
                   badImages, cached_reid, has_raw, needs_full, detection_ids,
                   raw_embeddings, full_embeddings, loop, all_embeddings,
                   output, stdout>>

\* if len(detections) == 0: write {"individuals": []}, STATUS: DONE, return.
NoDetections ==
    /\ pc = "shortcuts"
    /\ Len(detections) = 0
    /\ output' = Some([individuals |-> << >>])
    /\ stdout' = Append(stdout, "STATUS: DONE")
    /\ pc' = "done"
    /\ UNCHANGED <<cacheVars, clientVars, auxVars, detectVars,
                   detections, batch_size, batch_size_type, cacheMode,
                   badImages, cache, cached_reid, has_raw, needs_full,
                   detection_ids, raw_embeddings, full_embeddings, loop,
                   all_embeddings, trace>>

\* A variant of SingleIndividual that numbers the individual from one.
SingleIndividualFromOne(det) ==
    [individuals |->
        << [name |-> "ID-1", detection_ids |-> << det.detection_id >>] >>]

\* {"individuals": [{"name": "ID-0", "detection_ids": [det["detection_id"]]}]}
SingleIndividual(det) ==
    [individuals |->
        << [name |-> "ID-0", detection_ids |-> << det.detection_id >>] >>]

\* if len(detections) == 1: write the single individual ID-0, DONE, return.
SingleDetection ==
    /\ pc = "shortcuts"
    /\ Len(detections) = 1
    /\ output' = Some(SingleIndividual(detections[1]))
    /\ stdout' = Append(stdout, "STATUS: DONE")
    /\ pc' = "done"
    /\ UNCHANGED <<cacheVars, clientVars, auxVars, detectVars,
                   detections, batch_size, batch_size_type, cacheMode,
                   badImages, cache, cached_reid, has_raw, needs_full,
                   detection_ids, raw_embeddings, full_embeddings, loop,
                   all_embeddings, trace>>

\* The set-up of paths, device, configuration and models, then
\* print("STATUS: PROCESSING") and the empty work lists.
Setup ==
    /\ pc = "shortcuts"
    /\ Len(detections) >= 2
    /\ stdout' = Append(stdout, "STATUS: PROCESSING")
    /\ cached_reid' = << >>
    /\ has_raw' = << >>
    /\ needs_full' = << >>
    /\ detection_ids' = << >>
    /\ loop' = 1
    /\ pc' = "categorize"
    /\ UNCHANGED <<cacheVars, clientVars, auxVars, detectVars,
                   detections, batch_size, batch_size_type, cacheMode,
                   badImages, cache, raw_embeddings, full_embeddings,
                   all_embeddings, output, trace>>

\* The configuration or a weight file cannot be loaded: run raises before
\* STATUS: PROCESSING.
SetupRaises ==
    /\ pc = "shortcuts"
    /\ Len(detections) >= 2
    /\ pc' = "raised"
    /\ UNCHANGED <<cacheVars, clientVars, auxVars, detectVars,
                   detections, batch_size, batch_size_type, cacheMode,
                   badImages, cache, cached_reid, has_raw, needs_full,
                   detection_ids, raw_embeddings, full_embeddings, loop,
                   all_embeddings, output, stdout, trace>>

\* key = f"{image_id}:{cache.bbox_to_hash(bbox)}"
CacheKey(det) == ToString(det.image_id[1]) \o ":" \o bbox_to_hash(det.bbox)

\* A variant of Tier without the test of `cache`.
TierWithoutCacheTest(rows, use_cache, det) ==
    IF det.image_id # None
    THEN IF get_embedding(rows, det.image_id[1], det.bbox, reid_embedding_type) # None
         THEN "cached_reid"
         ELSE IF get_embedding(rows, det.image_id[1], det.bbox,
                               raw_embedding_type) # None
              THEN "has_raw"
              ELSE "needs_full"
    ELSE "needs_full"

\* A variant of Tier that looks the intermediate variant up first.
TierPreferringRaw(rows, use_cache, det) ==
    IF use_cache /\ det.image_id # None
    THEN IF get_embedding(rows, det.image_id[1], det.bbox, raw_embedding_type) # None
         THEN "has_raw"
         ELSE IF get_embedding(rows, det.image_id[1], det.bbox,
                               reid_embedding_type) # None
              THEN "cached_reid"
              ELSE "needs_full"
    ELSE "needs_full"

\* The dispatcher's decision for one detection (the body of the
\* categorisation loop): the final variant first, then the intermediate
\* one, else the full model; without a cache or an image_id, the full model.
Tier(rows, use_cache, det) ==
    IF use_cache /\ det.image_id # None
    THEN IF get_embedding(rows, det.image_id[1], det.bbox, reid_embedding_type) # None
         THEN "cached_reid"
         ELSE IF get_embedding(rows, det.image_id[1], det.bbox,
                               raw_embedding_type) # None
              THEN "has_raw"
              ELSE "needs_full"
    ELSE "needs_full"

\* One event of the run: a call of the cache, of a network or of clustering.
Event(op, args) == [op |-> op, args |-> args]

\* The cache lookups one iteration of the categorisation loop makes.
LookupEvents(rows, use_cache, det) ==
    IF use_cache /\ det.image_id # None
    THEN << Event("get_embedding",
                  <<det.image_id[1], det.bbox, reid_embedding_type>>) >>
         \o (IF Tier(rows, use_cache, det) = "cached_reid" THEN << >>
             ELSE << Event("get_embedding",
                           <<det.image_id[1], det.bbox, raw_embedding_type>>) >>)
    ELSE << >>

\* One iteration of `for i, det in enumerate(detections)`; after the last
\* one, raw_embeddings = {} and the adapter batches start.
Categorize ==
    /\ pc = "categorize"
    /\ LET det == detections[loop]
           tier == Tier(db, cache, det)
       IN  /\ detection_ids' = Append(detection_ids, Some(det.detection_id))
           /\ cached_reid' =
                 IF tier = "cached_reid"
                 THEN Put(cached_reid, CacheKey(det),
                          get_embedding(db, det.image_id[1], det.bbox,
                                        reid_embedding_type)[1])
                 ELSE cached_reid
           /\ has_raw' =
                 IF tier = "has_raw"
                 THEN Append(has_raw,
                        [idx |-> loop,
                         raw_emb |-> get_embedding(db, det.image_id[1], det.bbox,
                                                   raw_embedding_type)[1]])
                 ELSE has_raw
           /\ needs_full' = IF tier = "needs_full"
                            THEN Append(needs_full, loop) ELSE needs_full
           /\ trace' = trace \o LookupEvents(db, cache, det)
    /\ IF loop = Len(detections)
       THEN /\ pc' = "adapter"
            /\ loop' = 0
            /\ raw_embeddings' = << >>
       ELSE /\ pc' = pc
            /\ loop' = loop + 1
            /\ UNCHANGED raw_embeddings
    /\ UNCHANGED <<cacheVars, clientVars, auxVars, detectVars,
                   detections, batch_size, batch_size_type, cacheMode,
                   badImages, cache, full_embeddings, all_embeddings, output,
                   stdout>>

\* seq[batch_start : batch_start + batch_size]
Slice(seq, batch_start, size) ==
    SubSeq(seq, batch_start + 1,
           IF batch_start + size < Len(seq) THEN batch_start + size ELSE Len(seq))

\* dict[keys[k]] = values[k] for every k, in order
RECURSIVE PutAll(_, _, _, _)
PutAll(dict, keys, values, k) ==
    IF k > Len(keys) THEN dict
    ELSE PutAll(Put(dict, keys[k], values[k]), keys, values, k + 1)

\* A variant of ItemsToStore that keeps the first item of the batch only.
ItemsToStoreFirstOnly(use_cache, idxs, vectors) ==
    IF use_cache /\ Len(idxs) > 0 /\ detections[idxs[1]].image_id # None
    THEN << <<detections[idxs[1]].image_id[1], detections[idxs[1]].bbox,
              vectors[1]>> >>
    ELSE << >>

\* The write-back list of one batch: (image_id, bbox, vector) of every
\* item of batch_info that carries an image_id, if there is a cache.
ItemsToStore(use_cache, idxs, vectors) ==
    LET kept == SelectSeq([k \in 1..Len(idxs) |-> k],
                          LAMBDA k : use_cache /\ detections[idxs[k]].image_id # None)
    IN  [j \in 1..Len(kept) |->
            <<detections[idxs[kept[j]]].image_id[1], detections[idxs[kept[j]]].bbox,
              vectors[kept[j]]>>]

\* f"{processed}/{total}" with processed = min(batch_start + batch_size, total)
Progress(label, batch_start, total) ==
    label \o ": "
    \o ToString(IF batch_start + batch_size < total
                THEN batch_start + batch_size ELSE total)
    \o "/" \o ToString(total)

\* One batch of the adapter-only tier.  A crop that cannot be loaded only
\* loses its day/night reading: the bare except appends 1.
AdapterBatch ==
    /\ pc = "adapter"
    /\ loop < Len(has_raw)
    /\ batch_size_type = "int"
    /\ LET batch_items == Slice(has_raw, loop, batch_size)
           idxs == [k \in 1..Len(batch_items) |-> batch_items[k].idx]
           is_day_list == [k \in 1..Len(batch_items) |->
                IF detections[idxs[k]].image_path \in badImages THEN 1
                ELSE check_day_night(detections[idxs[k]].image_path)]
           reid_features == [k \in 1..Len(batch_items) |->
                forward_from_raw(batch_items[k].raw_emb, is_day_list[k])]
           items_to_store == ItemsToStore(cache, idxs, reid_features)
           st == IF Len(items_to_store) > 0 /\ cache
                 THEN store_embeddings_batch([rows |-> db, nextId |-> nextId],
                                             items_to_store, reid_embedding_type)
                 ELSE [rows |-> db, nextId |-> nextId]
       IN  /\ raw_embeddings' = PutAll(raw_embeddings, idxs, reid_features, 1)
           /\ db' = st.rows
           /\ nextId' = st.nextId
           /\ trace' = trace
                \o << Event("forward_from_raw", <<idxs, is_day_list>>) >>
                \o (IF Len(items_to_store) > 0 /\ cache
                    THEN << Event("store_embeddings_batch",
                                  <<items_to_store, reid_embedding_type>>) >>
                    ELSE << >>)
    /\ stdout' = Append(stdout, Progress("ADAPTER", loop, Len(has_raw)))
    /\ loop' = loop + batch_size
    /\ UNCHANGED <<clientVars, auxVars, detectVars, pc, detections, batch_size,
                   batch_size_type, cacheMode, badImages,
                   cache, cached_reid, has_raw, needs_full, detection_ids,
                   full_embeddings, all_embeddings, output>>

\* range(0, len(has_raw), batch_size) or range(0, len(needs_full), batch_size)
\* with a str batch_size: TypeError, before the first batch of the first
\* tier that has an item.
BatchSizeRaises ==
    /\ batch_size_type = "str"
    /\ \/ pc = "adapter" /\ Len(has_raw) > 0
       \/ pc = "full" /\ Len(needs_full) > 0
    /\ pc' = "raised"
    /\ UNCHANGED <<cacheVars, clientVars, auxVars, detectVars,
                   detections, batch_size, batch_size_type, cacheMode,
                   badImages, cache, cached_reid, has_raw, needs_full,
                   detection_ids, raw_embeddings, full_embeddings, loop,
                   all_embeddings, output, stdout, trace>>

\* The end of the adapter batches (or `if has_raw:` being false):
\* full_embeddings = {} and the full-model batches start.
AdapterDone ==
    /\ pc = "adapter"
    /\ loop >= Len(has_raw)
    /\ full_embeddings' = << >>
    /\ loop' = 0
    /\ pc' = "full"
    /\ UNCHANGED <<cacheVars, clientVars, auxVars, detectVars,
                   detections, batch_size, batch_size_type, cacheMode,
                   badImages, cache, cached_reid, has_raw, needs_full,
                   detection_ids, raw_embeddings, all_embeddings, output,
                   stdout, trace>>

\* A variant of MarkFailed that leaves the ids as they are.
MarkNone(ids, failed, k) == ids

\* detection_ids[detection_ids.index(id)] = None for every id of failed
RECURSIVE MarkFailed(_, _, _)
MarkFailed(ids, failed, k) ==
    IF k > Len(failed) THEN ids
    ELSE LET id == Some(detections[failed[k]].detection_id)
             at == CHOOSE j \in 1..Len(ids) :
                       ids[j] = id /\ \A h \in 1..(j - 1) : ids[h] # id
         IN  MarkFailed([ids EXCEPT ![at] = None], failed, k + 1)

\* One batch of the full-model tier.  A crop that cannot be loaded is left
\* out of the batch and its id is overwritten with None; a batch without a
\* loaded crop is skipped by `continue`, before the store and the print.
FullBatch ==
    /\ pc = "full"
    /\ loop < Len(needs_full)
    /\ batch_size_type = "int"
    /\ LET batch_items == Slice(needs_full, loop, batch_size)
           idxs == SelectSeq(batch_items,
                     LAMBDA i : detections[i].image_path \notin badImages)
           failed == SelectSeq(batch_items,
                     LAMBDA i : detections[i].image_path \in badImages)
           is_day_list == [k \in 1..Len(idxs) |->
                              check_day_night(detections[idxs[k]].image_path)]
           reid_features == [k \in 1..Len(idxs) |->
                forward(detections[idxs[k]].image_path, detections[idxs[k]].bbox,
                        is_day_list[k])]
           items_to_store == ItemsToStore(cache, idxs, reid_features)
           st == IF Len(items_to_store) > 0 /\ cache
                 THEN store_embeddings_batch([rows |-> db, nextId |-> nextId],
                                             items_to_store, reid_embedding_type)
                 ELSE [rows |-> db, nextId |-> nextId]
       IN  /\ detection_ids' = MarkFailed(detection_ids, failed, 1)
           /\ IF Len(idxs) = 0
              THEN UNCHANGED <<cacheVars, full_embeddings, trace, stdout>>
              ELSE /\ full_embeddings' = PutAll(full_embeddings, idxs,
                                                reid_features, 1)
                   /\ db' = st.rows
                   /\ nextId' = st.nextId
                   /\ trace' = trace
                        \o << Event("forward", <<idxs, is_day_list>>) >>
                        \o (IF Len(items_to_store) > 0 /\ cache
                            THEN << Event("store_embeddings_batch",
                                          <<items_to_store, reid_embedding_type>>) >>
                            ELSE << >>)
                   /\ stdout' = Append(stdout,
                                   Progress("PROCESS", loop, Len(needs_full)))
    /\ loop' = loop + batch_size
    /\ UNCHANGED <<clientVars, auxVars, detectVars, pc, detections, batch_size,
                   batch_size_type, cacheMode, badImages,
                   cache, cached_reid, has_raw, needs_full, raw_embeddings,
                   all_embeddings, output>>

\* [d for d in ids if d is not None]
NotNone(ids) == SelectSeq(ids, LAMBDA d : d # None)

\* The vector the merge loop appends for detection i, if any: the one
\* found in the cache, else the adapter's, else the full model's.
MergedEmbedding(i) ==
    IF cache /\ detections[i].image_id # None
             /\ CacheKey(detections[i]) \in DOMAIN cached_reid
    THEN Some(cached_reid[CacheKey(detections[i])])
    ELSE IF i \in DOMAIN raw_embeddings THEN Some(raw_embeddings[i])
    ELSE IF i \in DOMAIN full_embeddings THEN Some(full_embeddings[i])
    ELSE None

\* A variant of Merged that lists the detections tier by tier: those found
\* in the cache, then the adapter's, then the full model's.
MergedByTier(ids) ==
    LET all == SelectSeq([i \in 1..Len(detections) |-> i],
                  LAMBDA i : /\ Some(detections[i].detection_id) \in Range(ids)
                             /\ MergedEmbedding(i) # None)
    IN  SelectSeq(all, LAMBDA i : i \notin DOMAIN raw_embeddings
                                  /\ i \notin DOMAIN full_embeddings)
        \o SelectSeq(all, LAMBDA i : i \in DOMAIN raw_embeddings)
        \o SelectSeq(all, LAMBDA i : i \in DOMAIN full_embeddings)

\* The detections the merge loop appends a vector for, in input order.
Merged(ids) ==
    SelectSeq([i \in 1..Len(detections) |-> i],
              LAMBDA i : /\ Some(detections[i].detection_id) \in Range(ids)
                         /\ MergedEmbedding(i) # None)

\* The end of the full-model batches (or `if needs_full:` being false):
\* the failed ids are removed and the vectors are put in input order.
Combine ==
    /\ pc = "full"
    /\ loop >= Len(needs_full)
    /\ detection_ids' = NotNone(detection_ids)
    /\ all_embeddings' =
          [p \in 1..Len(Merged(NotNone(detection_ids))) |->
              MergedEmbedding(Merged(NotNone(detection_ids))[p])[1]]
    /\ pc' = "combined"
    /\ UNCHANGED <<cacheVars, clientVars, auxVars, detectVars,
                   detections, batch_size, batch_size_type, cacheMode,
                   badImages, cache, cached_reid, has_raw, needs_full,
                   raw_embeddings, full_embeddings, loop, output, stdout, trace>>

\* A variant of NoValidEmbeddings that returns without the marker.
NoValidEmbeddingsSilent ==
    /\ pc = "combined"
    /\ Len(all_embeddings) = 0
    /\ output' = Some([individuals |-> << >>])
    /\ pc' = "done"
    /\ UNCHANGED <<cacheVars, clientVars, auxVars, detectVars,
                   detections, batch_size, batch_size_type, cacheMode,
                   badImages, cache, cached_reid, has_raw, needs_full,
                   detection_ids, raw_embeddings, full_embeddings, loop,
                   all_embeddings, stdout, trace>>

\* if len(all_embeddings) == 0: write {"individuals": []}, DONE, return.
NoValidEmbeddings ==
    /\ pc = "combined"
    /\ Len(all_embeddings) = 0
    /\ output' = Some([individuals |-> << >>])
    /\ stdout' = Append(stdout, "STATUS: DONE")
    /\ pc' = "done"
    /\ UNCHANGED <<cacheVars, clientVars, auxVars, detectVars,
                   detections, batch_size, batch_size_type, cacheMode,
                   badImages, cache, cached_reid, has_raw, needs_full,
                   detection_ids, raw_embeddings, full_embeddings, loop,
                   all_embeddings, trace>>

\* A variant of Cluster that formats the clusters against the ids of the
\* input list, the dropped ones included.
ClusterOverInput ==
    /\ pc = "combined"
    /\ Len(all_embeddings) > 0
    /\ \E distance_mat \in { compute_distance_matrix(all_embeddings) } :
       \E id_dict \in { process_dist_mat_v2(distance_mat) } :
          output' = Some(format_output_with_detection_ids(
                            [k \in 1..Len(detections) |-> detections[k].detection_id],
                            id_dict))
    /\ trace' = trace
          \o << Event("compute_distance_matrix", <<Len(all_embeddings)>>),
                Event("process_dist_mat_v2", <<Len(all_embeddings)>>) >>
    /\ stdout' = Append(stdout, "STATUS: DONE")
    /\ pc' = "done"
    /\ UNCHANGED <<cacheVars, clientVars, auxVars, detectVars,
                   detections, batch_size, batch_size_type, cacheMode,
                   badImages, cache, cached_reid, has_raw, needs_full,
                   detection_ids, raw_embeddings, full_embeddings, loop,
                   all_embeddings>>

\* np.stack, compute_distance_matrix, process_dist_mat_v2, the formatting
\* and writing of the output, DONE.
Cluster ==
    /\ pc = "combined"
    /\ Len(all_embeddings) > 0
    /\ \E distance_mat \in { compute_distance_matrix(all_embeddings) } :
       \E id_dict \in { process_dist_mat_v2(distance_mat) } :
          output' = Some(format_output_with_detection_ids(
                            [k \in 1..Len(detection_ids) |-> detection_ids[k][1]],
                            id_dict))
    /\ trace' = trace
          \o << Event("compute_distance_matrix", <<Len(all_embeddings)>>),
                Event("process_dist_mat_v2", <<Len(all_embeddings)>>) >>
    /\ stdout' = Append(stdout, "STATUS: DONE")
    /\ pc' = "done"
    /\ UNCHANGED <<cacheVars, clientVars, auxVars, detectVars,
                   detections, batch_size, batch_size_type, cacheMode,
                   badImages, cache, cached_reid, has_raw, needs_full,
                   detection_ids, raw_embeddings, full_embeddings, loop,
                   all_embeddings>>

-----------------------------------------------------------------------------
(* One run of detection_dino.run on a manifest: the cache set-up of         *)
(* predict_multiple_species_batched and batch_dino_image_processing.       *)

\* The most crops MegaDetector leaves for classification.
MaxCrops == 3

\* The size (width, height) of every image file, in pixels.
ImageSize == <<100, 50>>

\* The i-th (filepath, bbox) pair; normalized coordinates are in thousandths.
\* Crops 1 and 3 are boxes on file 1 with the same pixel box.
NormalizedBox(i) ==
    IF i \in {1, 2} THEN <<100, 300, 400, 500>>
    ELSE IF i = 3 THEN <<105, 300, 400, 500>>
    ELSE <<500, 0, 1000, 1000>>

ImageBboxPair(i) == [filepath |-> 2 - (i % 2), bbox |-> NormalizedBox(i)]

Min(a, b) == IF a < b THEN a ELSE b
Max(a, b) == IF a < b THEN b ELSE a

\* detection_utils.convert_bbox_normalized_to_absolute; the result is in
\* tenths of a pixel like every pixel box of the model.
convert_bbox_normalized_to_absolute(bbox, image_width, image_height) ==
    << 10 * Max(0, Min((bbox[1] * image_width) \div 1000, image_width - 1)),
       10 * Max(0, Min((bbox[2] * image_height) \div 1000, image_height - 1)),
       10 * Max(0, Min((bbox[3] * image_width) \div 1000, image_width)),
       10 * Max(0, Min((bbox[4] * image_height) \div 1000, image_height)) >>

\* A normalized box read as if it were a pixel box (tenths of a pixel).
AsPixelBox(bbox) == [k \in 1..4 |-> bbox[k] \div 100]

\* The backbone's feature of the dummy tensor torch.zeros(3, 224, 224).
FeatureOfZeros == <<6, 6>>

\* The box the first pass looks up: the pixel box, or the box as given when
\* the file cannot be opened.
LookupBox(pair) ==
    IF pair.filepath \in badImages THEN AsPixelBox(pair.bbox)
    ELSE convert_bbox_normalized_to_absolute(pair.bbox, ImageSize[1], ImageSize[2])

\* What the database may hold for the crops of one file when a detection
\* run starts: nothing, the raw feature of the crop, or the record an
\* earlier run wrote for a crop that failed.
RawStatus == {"none", "raw", "dummy"}

RawRowsOfFile(file, status, id) ==
    LET pixel_bbox == convert_bbox_normalized_to_absolute(
                          NormalizedBox(1), ImageSize[1], ImageSize[2])
    IN  IF status = "raw"
        THEN { [id |-> id, image_id |-> file,
                bbox_hash |-> bbox_to_hash(pixel_bbox),
                embedding_type |-> RAW_EMBEDDING_TYPE,
                embedding |-> ToBytes(Backbone(file, pixel_bbox))] }
        ELSE IF status = "dummy"
        THEN { [id |-> id, image_id |-> file,
                bbox_hash |-> bbox_to_hash(<<0, 0, 0, 0>>),
                embedding_type |-> RAW_EMBEDDING_TYPE,
                embedding |-> ToBytes(FeatureOfZeros)] }
        ELSE {}

InitDetection ==
    /\ AuxIdle
    /\ \E s1 \in RawStatus, s2 \in RawStatus :
          db = RawRowsOfFile(1, s1, 1) \cup RawRowsOfFile(2, s2, 2)
    /\ nextId = 3
    /\ ret = NoCall
    /\ history = << >>
    /\ pc = "detect_begin"
    /\ detections = << >>
    /\ batch_size \in 1..MaxBatchSize
    /\ batch_size_type = "int"
    /\ cacheMode \in {"ok", "nopath", "raises"}
    /\ cacheMode # "ok" => db = RawRowsOfFile(1, "raw", 1)
    /\ badImages \in SUBSET {1, 2}
    /\ cache = FALSE
    /\ cached_reid = << >>
    /\ has_raw = << >>
    /\ needs_full = << >>
    /\ detection_ids = << >>
    /\ raw_embeddings = << >>
    /\ full_embeddings = << >>
    /\ loop = 0
    /\ all_embeddings = << >>
    /\ output = None
    /\ stdout = << >>
    /\ trace = << >>
    /\ \E n \in 0..MaxCrops : image_bbox_pairs = [i \in 1..n |-> ImageBboxPair(i)]
    /\ image_id_map \in SUBSET {1, 2}
    /\ to_process = << >>
    /\ all_features = << >>
    /\ cached_count = 0

reidVars == <<detections, cached_reid, has_raw, needs_full, detection_ids,
              raw_embeddings, full_embeddings, all_embeddings>>

\* run: print("STATUS: BEGIN"), the manifest, MegaDetector.
DetectBegin ==
    /\ pc = "detect_begin"
    /\ stdout' = Append(stdout, "STATUS: BEGIN")
    /\ pc' = "detect_cache_init"
    /\ UNCHANGED <<cacheVars, clientVars, auxVars, reidVars, detectVars, batch_size, batch_size_type,
                   cacheMode, badImages, cache, loop, output, trace>>

\* predict_multiple_species_batched: cache = None; if db_path: try
\* EmbeddingCache(db_path) except: cache = None.  Then the models, the
\* pairs and print(f"PROCESS: 0/{len(all_image_bbox_pairs)}").
DetectCacheInit ==
    /\ pc = "detect_cache_init"
    /\ cache' = (cacheMode = "ok")
    /\ trace' = IF cacheMode = "nopath" THEN trace
                ELSE Append(trace, [op |-> "EmbeddingCache",
                                    args |-> <<cacheMode>>])
    /\ stdout' = Append(stdout,
                    "PROCESS: 0/" \o ToString(Len(image_bbox_pairs)))
    /\ pc' = "detect_pairs"
    /\ UNCHANGED <<cacheVars, clientVars, auxVars, reidVars, detectVars, batch_size, batch_size_type,
                   cacheMode, badImages, loop, output>>

\* if not all_image_bbox_pairs: return [] -- nothing is saved; run prints
\* STATUS: DONE.
DetectNoCrops ==
    /\ pc = "detect_pairs"
    /\ Len(image_bbox_pairs) = 0
    /\ stdout' = Append(stdout, "STATUS: DONE")
    /\ pc' = "detect_done"
    /\ UNCHANGED <<cacheVars, clientVars, auxVars, reidVars, detectVars, batch_size, batch_size_type,
                   cacheMode, badImages, cache, loop, output, trace>>

\* The entry of batch_dino_image_processing: all_features = [None] * n.
DetectStart ==
    /\ pc = "detect_pairs"
    /\ Len(image_bbox_pairs) > 0
    /\ all_features' = [i \in 1..Len(image_bbox_pairs) |-> None]
    /\ to_process' = << >>
    /\ cached_count' = 0
    /\ loop' = 1
    /\ pc' = "detect_first_pass"
    /\ UNCHANGED <<cacheVars, clientVars, auxVars, reidVars, image_bbox_pairs,
                   image_id_map, batch_size, batch_size_type, cacheMode, badImages, cache,
                   output, stdout, trace>>

\* The first pass looks a crop up if there is a cache, a non-empty id map
\* and an id for the file.
LooksUp(use_cache, pair) ==
    use_cache /\ image_id_map # {} /\ pair.filepath \in image_id_map

\* One iteration of the first pass.
DetectFirstPass ==
    /\ pc = "detect_first_pass"
    /\ LET pair == image_bbox_pairs[loop]
           looked == LooksUp(cache, pair)
           cached_emb == IF looked
                         THEN get_embedding(db, pair.filepath, LookupBox(pair),
                                            RAW_EMBEDDING_TYPE)
                         ELSE None
       IN  /\ all_features' = IF cached_emb # None
                              THEN [all_features EXCEPT ![loop] = cached_emb]
                              ELSE all_features
           /\ cached_count' = IF cached_emb # None
                              THEN cached_count + 1 ELSE cached_count
           /\ to_process' = IF cached_emb # None
                            THEN to_process ELSE Append(to_process, loop)
           /\ trace' = IF looked
                       THEN Append(trace, Event("get_embedding",
                               <<pair.filepath, LookupBox(pair), RAW_EMBEDDING_TYPE>>))
                       ELSE trace
    /\ IF loop = Len(image_bbox_pairs)
       THEN pc' = "detect_second_pass" /\ loop' = 0
       ELSE pc' = pc /\ loop' = loop + 1
    /\ UNCHANGED <<cacheVars, clientVars, auxVars, reidVars, image_bbox_pairs,
                   image_id_map, batch_size, batch_size_type, cacheMode, badImages, cache,
                   output, stdout>>

\* The crops of one batch of the second pass, as batch_info holds them:
\* the index, the pixel box and the feature; a crop that fails gets the
\* box [0, 0, 0, 0] and the feature of the dummy tensor.
BatchInfo(idxs) ==
    [k \in 1..Len(idxs) |->
        LET pair == image_bbox_pairs[idxs[k]]
            pixel_bbox == convert_bbox_normalized_to_absolute(
                              pair.bbox, ImageSize[1], ImageSize[2])
        IN  IF pair.filepath \in badImages
            THEN [idx |-> idxs[k], pixel_bbox |-> <<0, 0, 0, 0>>,
                  feature |-> FeatureOfZeros]
            ELSE [idx |-> idxs[k], pixel_bbox |-> pixel_bbox,
                  feature |-> Backbone(pair.filepath, pixel_bbox)]]

\* items_to_cache of one batch.
ItemsToCache(use_cache, batch_info) ==
    LET kept == SelectSeq(batch_info,
                    LAMBDA b : LooksUp(use_cache, image_bbox_pairs[b.idx]))
    IN  [j \in 1..Len(kept) |->
            <<image_bbox_pairs[kept[j].idx].filepath, kept[j].pixel_bbox,
              kept[j].feature>>]

\* One batch of the second pass.
DetectBatch ==
    /\ pc = "detect_second_pass"
    /\ loop < Len(to_process)
    /\ LET batch_info == BatchInfo(Slice(to_process, loop, batch_size))
           items_to_cache == ItemsToCache(cache, batch_info)
           st == IF Len(items_to_cache) > 0 /\ cache
                 THEN store_embeddings_batch([rows |-> db, nextId |-> nextId],
                                             items_to_cache, RAW_EMBEDDING_TYPE)
                 ELSE [rows |-> db, nextId |-> nextId]
       IN  /\ all_features' =
                 [i \in 1..Len(all_features) |->
                     IF \E k \in 1..Len(batch_info) : batch_info[k].idx = i
                     THEN Some((CHOOSE b \in Range(batch_info) : b.idx = i).feature)
                     ELSE all_features[i]]
           /\ db' = st.rows
           /\ nextId' = st.nextId
           /\ trace' = trace
                \o << Event("get_intermediate_layers",
                            << [k \in 1..Len(batch_info) |-> batch_info[k].idx] >>) >>
                \o (IF Len(items_to_cache) > 0 /\ cache
                    THEN << Event("store_embeddings_batch",
                                  <<items_to_cache, RAW_EMBEDDING_TYPE>>) >>
                    ELSE << >>)
    /\ stdout' = Append(stdout,
          "PROCESS: "
          \o ToString(Min(loop + batch_size, Len(to_process)) + cached_count)
          \o "/" \o ToString(Len(image_bbox_pairs)))
    /\ loop' = loop + batch_size
    /\ UNCHANGED <<clientVars, auxVars, reidVars, image_bbox_pairs, image_id_map,
                   to_process, cached_count, pc, batch_size, batch_size_type, cacheMode,
                   badImages, cache, output>>

\* The end of batch_dino_image_processing (with the 100% line when every
\* crop was cached), the classifiers on all_features, the saving of the
\* prediction results, and run's print("STATUS: DONE").
DetectFinish ==
    /\ pc = "detect_second_pass"
    /\ loop >= Len(to_process)
    /\ output' = Some([predictions |->
                        [i \in 1..Len(image_bbox_pairs) |->
                            [bounding_box |-> image_bbox_pairs[i].bbox,
                             classified |-> all_features[i]]]])
    /\ stdout' = stdout
          \o (IF Len(to_process) = 0 /\ cached_count > 0
              THEN << "PROCESS: " \o ToString(Len(image_bbox_pairs))
                      \o "/" \o ToString(Len(image_bbox_pairs)) >>
              ELSE << >>)
          \o << "STATUS: DONE" >>
    /\ pc' = "detect_done"
    /\ UNCHANGED <<cacheVars, clientVars, auxVars, reidVars, detectVars, batch_size, batch_size_type,
                   cacheMode, badImages, cache, loop, trace>>

-----------------------------------------------------------------------------
(* Spec: one job, a re-identification run or a detection run. *)

Init == InitReid \/ InitDetection

Next ==
    \/ Begin
    \/ CacheInit
    \/ NoDetections
    \/ SingleDetection
    \/ Setup
    \/ Categorize
    \/ AdapterBatch
    \/ AdapterDone
    \/ FullBatch
    \/ Combine
    \/ NoValidEmbeddings
    \/ Cluster
    \/ DetectBegin
    \/ DetectCacheInit
    \/ DetectNoCrops
    \/ DetectStart
    \/ DetectFirstPass
    \/ DetectBatch
    \/ DetectFinish

Spec == Init /\ [][Next]_vars

-----------------------------------------------------------------------------
(* SpecRun: one run of reid_v2.run as either command line starts it, with   *)
(* the failures that end it with an exception.  main.py hands its optional  *)
(* batch_size argument to run as the str of sys.argv; reid_v2's own command *)
(* line converts it with int().                                             *)

InitMain == InitRun({"int", "str"})

NextRun ==
    \/ Begin
    \/ ReadInputRaises
    \/ CacheInit
    \/ NoDetections
    \/ SingleDetection
    \/ Setup
    \/ SetupRaises
    \/ Categorize
    \/ BatchSizeRaises
    \/ AdapterBatch
    \/ AdapterDone
    \/ FullBatch
    \/ Combine
    \/ NoValidEmbeddings
    \/ Cluster

SpecRun == InitMain /\ [][NextRun]_vars

-----------------------------------------------------------------------------
(* SpecCluster: compute_distance_matrix on a list of embeddings, then      *)
(* process_dist_mat_v2 called twice on the matrix, one row step at a time. *)

\* The longest list of embeddings handed to compute_distance_matrix.
MaxEmbeddings == 4

\* Unit vectors up to rounding, as float64 rows.  From <<10000, 0>> the
\* distances are 0.0005 to <<9995, 316>>, 0.002 to <<9980, 632>>, 0.01 to
\* <<9900, 1411>> and 1 to <<0, 10000>>; <<9995, 316>> to <<9980, 632>> is
\* 0.0005, and <<0, 10000>> to <<283, 9996>> is 0.0004.
Embeddings ==
    { <<10000, 0>>, <<9995, 316>>, <<9980, 632>>, <<9900, 1411>>,
      <<0, 10000>>, <<283, 9996>> }

\* Two tight pairs and a vector midway between them: the directions 0, 1, 7,
\* 8 and 4 degrees.  The pairs are 0.0002 apart, the middle vector is 0.0014
\* from the nearer vector of either pair.
Chain ==
    << <<10000, 0>>, <<9998, 175>>, <<9925, 1219>>, <<9903, 1392>>, <<9976, 698>> >>

\* The jobs and the cache client do not run.
JobsIdle ==
    /\ db = {}
    /\ nextId = 1
    /\ ret = NoCall
    /\ history = << >>
    /\ RunIdle
    /\ DetectIdle

jobVars == <<cacheVars, clientVars, runVars, detectVars>>


InitCluster ==
    /\ JobsIdle
    /\ cluster_pc = "embeddings"
    /\ \/ \E n \in 1..MaxEmbeddings : emb_input \in [1..n -> Embeddings]
       \/ emb_input \in [1..Len(Chain) -> Range(Chain)]
    /\ dist_matrix = << >>
    /\ keys_now = << >>
    /\ row_now = 0
    /\ keys_log = << >>
    /\ output_dict = None
    /\ run_no = 1
    /\ first_run = None
    /\ InstancesIdle
    /\ PoolIdle

\* distance_mat = compute_distance_matrix(all_embeddings)
ComputeDistanceMatrix ==
    /\ cluster_pc = "embeddings"
    /\ dist_matrix' = compute_distance_matrix(emb_input)
    /\ cluster_pc' = "call"
    /\ UNCHANGED <<jobVars, inst, poolVars, emb_input, keys_now, row_now, keys_log, output_dict,
                   run_no, first_run>>

\* A variant of StartClustering in which keys outlives the call: a second
\* call starts from the keys the first one left.
StartClusteringOnOldKeys ==
    /\ cluster_pc = "call"
    /\ keys_now' = IF keys_now = << >> THEN [j \in 1..Len(dist_matrix) |-> -1]
                   ELSE keys_now
    /\ row_now' = 0
    /\ keys_log' = << >>
    /\ output_dict' = None
    /\ cluster_pc' = "rows"
    /\ UNCHANGED <<jobVars, inst, poolVars, emb_input, dist_matrix, run_no, first_run>>

\* process_dist_mat_v2, entry: keys = np.array([-1] * number_of_images).
StartClustering ==
    /\ cluster_pc = "call"
    /\ keys_now' = [j \in 1..Len(dist_matrix) |-> -1]
    /\ row_now' = 0
    /\ keys_log' = << >>
    /\ output_dict' = None
    /\ cluster_pc' = "rows"
    /\ UNCHANGED <<jobVars, inst, poolVars, emb_input, dist_matrix, run_no, first_run>>

\* process_dist_mat_v2, one pass of `for r in range(len(dist_mat))`.
ClusterRow ==
    /\ cluster_pc = "rows"
    /\ row_now < Len(dist_matrix)
    /\ keys_now' = RowStep(keys_now, dist_matrix[row_now + 1], row_now + 1)
    /\ row_now' = row_now + 1
    /\ keys_log' = Append(keys_log, keys_now')
    /\ UNCHANGED <<jobVars, inst, poolVars, cluster_pc, emb_input, dist_matrix, output_dict,
                   run_no, first_run>>

\* process_dist_mat_v2, the compaction loop and the return.
ClusterReturn ==
    /\ cluster_pc = "rows"
    /\ row_now = Len(dist_matrix)
    /\ LET min_key == CHOOSE m \in Range(keys_now) :
                          \A x \in Range(keys_now) : m <= x
       IN  output_dict' = Some(Compact(keys_now, min_key, MaxKey(keys_now)))
    /\ cluster_pc' = "returned"
    /\ UNCHANGED <<jobVars, inst, poolVars, emb_input, dist_matrix, keys_now, row_now, keys_log,
                   run_no, first_run>>

\* The caller keeps what the first call did and calls again on the matrix.
CallAgain ==
    /\ cluster_pc = "returned"
    /\ run_no = 1
    /\ first_run' = Some([keys_log |-> keys_log, output_dict |-> output_dict[1]])
    /\ run_no' = 2
    /\ cluster_pc' = "call"
    /\ UNCHANGED <<jobVars, inst, poolVars, emb_input, dist_matrix, keys_now, row_now, keys_log,
                   output_dict>>

NextCluster ==
    \/ ComputeDistanceMatrix
    \/ StartClustering
    \/ ClusterRow
    \/ ClusterReturn
    \/ CallAgain

SpecCluster == InitCluster /\ [][NextCluster]_vars

-----------------------------------------------------------------------------
(* SpecInstances: two EmbeddingCache instances, each in its own process,   *)
(* calling the methods of the class on one database file.  A call is a     *)
(* sequence of steps: the connection, the statements, the commit, the      *)
(* finally clause.  SQLite lets one connection at a time hold a write      *)
(* transaction: an INSERT waits while another connection holds one, and    *)
(* raises "database is locked" when the wait times out.  An uncommitted    *)
(* transaction is seen by its connection only and is rolled back by        *)
(* close().                                                                *)

Instances == {1, 2}

\* The most calls one instance makes.
MaxCalls == 2

\* The crop both instances write to and the vector each of them writes.
SharedImage == 1
SharedBox == <<12, 37, 41, 59>>
VectorOf(p) == IF p = 1 THEN <<2, 4>> ELSE <<6, 8>>

\* The calls instance p chooses from: the name of the method and its items
\* (<<image_id, bbox>> to read, <<image_id, bbox, embedding>> to write).  An
\* embedding of None makes astype raise.
CallsOf(p) ==
    { [op |-> "_init_table", items |-> << >>],
      [op |-> "get_embedding", items |-> << <<SharedImage, SharedBox>> >>],
      [op |-> "count_embeddings", items |-> << >>],
      [op |-> "get_embeddings_batch", items |-> << >>],
      [op |-> "get_embeddings_batch",
       items |-> << <<SharedImage, SharedBox>>, <<2, SharedBox>> >>],
      [op |-> "store_embedding",
       items |-> << <<SharedImage, SharedBox, VectorOf(p)>> >>],
      [op |-> "store_embeddings_batch", items |-> << >>],
      [op |-> "store_embeddings_batch",
       items |-> << <<2, SharedBox, VectorOf(p)>>,
                    <<SharedImage, SharedBox, VectorOf(p)>> >>],
      [op |-> "store_embeddings_batch",
       items |-> << <<2, SharedBox, VectorOf(p)>>,
                    <<SharedImage, SharedBox, None>> >>] }

Writes(op) == op \in {"store_embedding", "store_embeddings_batch"}

\* The statements a call executes between connecting and committing.
Statements(call) ==
    CASE call.op = "_init_table" -> 2
      [] call.op \in {"get_embedding", "count_embeddings"} -> 1
      [] OTHER -> Len(call.items)

NoInstanceCall == [op |-> "none", items |-> << >>]

InitInstances ==
    /\ db = {}
    /\ nextId = 1
    /\ ret = NoCall
    /\ history = << >>
    /\ RunIdle
    /\ DetectIdle
    /\ ClusterIdle
    /\ PoolIdle
    /\ inst = [p \in Instances |->
                 [pc |-> "idle", call |-> NoInstanceCall, k |-> 0, conns |-> 0,
                  txn |-> None, overlapped |-> FALSE, calls |-> 0,
                  how |-> "none"]]

instFrame == <<ret, runVars, detectVars, clusterVars, poolVars>>

\* `if not items: return` of the two batch methods: no connection is opened.
ReturnEarly(p) ==
    /\ inst[p].pc = "idle"
    /\ inst[p].calls < MaxCalls
    /\ \E call \in CallsOf(p) :
          /\ call.op \in {"get_embeddings_batch", "store_embeddings_batch"}
          /\ Len(call.items) = 0
          /\ inst' = [inst EXCEPT
                ![p].call = call,
                ![p].calls = @ + 1,
                ![p].how = "returned"]
    /\ UNCHANGED <<cacheVars, history, instFrame>>

\* conn = self._get_connection() of any other call.
Connect(p) ==
    /\ inst[p].pc = "idle"
    /\ inst[p].calls < MaxCalls
    /\ \E call \in CallsOf(p) :
          /\ ~(call.op \in {"get_embeddings_batch", "store_embeddings_batch"}
                /\ Len(call.items) = 0)
          /\ inst' = [inst EXCEPT
                ![p].pc = "connected",
                ![p].call = call,
                ![p].k = 0,
                ![p].conns = @ + 1,
                ![p].overlapped = \E q \in Instances \ {p} : inst[q].pc # "idle"]
    /\ UNCHANGED <<cacheVars, history, instFrame>>

\* The rows connection p sees: its own transaction, else the committed rows.
ViewOf(p) ==
    IF inst[p].txn # None THEN inst[p].txn[1]
    ELSE [rows |-> db, nextId |-> nextId]

\* A variant of CanInsert for a database without the write lock: an INSERT
\* never waits.
CanInsertUnlocked(p) ==
    /\ Writes(inst[p].call.op)
    /\ inst[p].call.items[inst[p].k + 1][3] # None

\* The next statement of a call that writes is an INSERT that can run.
CanInsert(p) ==
    /\ Writes(inst[p].call.op)
    /\ inst[p].call.items[inst[p].k + 1][3] # None
    /\ \A q \in Instances \ {p} : inst[q].txn = None

\* cursor.execute of the next statement.  A SELECT or CREATE ... IF NOT
\* EXISTS changes nothing; an INSERT OR REPLACE begins the transaction of
\* the connection, if none runs, and changes its rows.
Execute(p) ==
    /\ inst[p].pc = "connected"
    /\ inst[p].k < Statements(inst[p].call)
    /\ Writes(inst[p].call.op) => CanInsert(p)
    /\ LET item == inst[p].call.items[inst[p].k + 1]
           view == ViewOf(p)
       IN  inst' = [inst EXCEPT
              ![p].k = @ + 1,
              ![p].txn =
                 IF Writes(inst[p].call.op)
                 THEN Some([rows |-> InsertOrReplace(view.rows, view.nextId,
                                        item[1], bbox_to_hash(item[2]),
                                        REID_EMBEDDING_PREFIX \o "stoat",
                                        ToBytes(item[3])),
                            nextId |-> view.nextId + 1])
                 ELSE @]
    /\ UNCHANGED <<cacheVars, history, instFrame>>

\* The next statement raises: astype on an embedding of None, or an INSERT
\* that waited for the write transaction of another connection until the
\* timeout.
ExecuteRaises(p) ==
    /\ inst[p].pc = "connected"
    /\ inst[p].k < Statements(inst[p].call)
    /\ Writes(inst[p].call.op)
    /\ \/ inst[p].call.items[inst[p].k + 1][3] = None
       \/ \E q \in Instances \ {p} : inst[q].txn # None
    /\ inst' = [inst EXCEPT ![p].pc = "raised"]
    /\ UNCHANGED <<cacheVars, history, instFrame>>

\* The items a committed call stored, as items of history.
StoredBy(call) ==
    [k \in 1..Len(call.items) |->
        <<call.items[k][1], call.items[k][2], REID_EMBEDDING_PREFIX \o "stoat",
          call.items[k][3]>>]

\* conn.commit() of the calls that commit, and the return of the others.
Commit(p) ==
    /\ inst[p].pc = "connected"
    /\ inst[p].k = Statements(inst[p].call)
    /\ IF inst[p].txn # None
       THEN /\ db' = inst[p].txn[1].rows
            /\ nextId' = inst[p].txn[1].nextId
            /\ history' = history \o StoredBy(inst[p].call)
       ELSE UNCHANGED <<cacheVars, history>>
    /\ inst' = [inst EXCEPT ![p].pc = "returning", ![p].txn = None]
    /\ UNCHANGED instFrame

\* A variant of Finally without the finally clause: conn.close() runs on the
\* path that returns only.
CloseUnlessRaised(p) ==
    /\ inst[p].pc \in {"returning", "raised"}
    /\ inst' = [inst EXCEPT
          ![p].pc = "idle",
          ![p].conns = IF inst[p].pc = "raised" THEN @ ELSE @ - 1,
          ![p].txn = None,
          ![p].calls = @ + 1,
          ![p].how = IF inst[p].pc = "raised" THEN "raised" ELSE "returned"]
    /\ UNCHANGED <<cacheVars, history, instFrame>>

\* A variant of Finally for a connection whose close() commits: what the
\* connection had written when the call raised reaches the table.
CloseCommitting(p) ==
    /\ inst[p].pc \in {"returning", "raised"}
    /\ IF inst[p].txn # None
       THEN /\ db' = inst[p].txn[1].rows
            /\ nextId' = inst[p].txn[1].nextId
       ELSE UNCHANGED cacheVars
    /\ inst' = [inst EXCEPT
          ![p].pc = "idle",
          ![p].conns = @ - 1,
          ![p].txn = None,
          ![p].calls = @ + 1,
          ![p].how = IF inst[p].pc = "raised" THEN "raised" ELSE "returned"]
    /\ UNCHANGED <<history, instFrame>>

\* finally: conn.close(), on the path that returns and on the path that
\* raises; close() rolls back what was not committed.
Finally(p) ==
    /\ inst[p].pc \in {"returning", "raised"}
    /\ inst' = [inst EXCEPT
          ![p].pc = "idle",
          ![p].conns = @ - 1,
          ![p].txn = None,
          ![p].calls = @ + 1,
          ![p].how = IF inst[p].pc = "raised" THEN "raised" ELSE "returned"]
    /\ UNCHANGED <<cacheVars, history, instFrame>>

NextInstances ==
    \/ \E p \in Instances : ReturnEarly(p)
    \/ \E p \in Instances : Connect(p)
    \/ \E p \in Instances : Execute(p)
    \/ \E p \in Instances : ExecuteRaises(p)
    \/ \E p \in Instances : Commit(p)
    \/ \E p \in Instances : Finally(p)

SpecInstances == InitInstances /\ [][NextInstances]_vars

-----------------------------------------------------------------------------
(* process_images_with_pool of python/detection_dino_cpu.py.  The parent     *)
(* walks the image folder, creates counter and lock in a manager process,   *)
(* and hands one task per image to a pool of worker processes;              *)
(* worker_process reports progress in its finally block.  counter.value    *)
(* is a proxy attribute: `counter.value += 1` is a read request and a write *)
(* request to the manager, and the f-string reads it once more, so the      *)
(* three are separate steps that other workers can interleave with.         *)
(*                                                                          *)
(* What is not modelled: a worker process killed from outside, an exception *)
(* that is not an Exception, and log_message raising inside the except      *)
(* block.  Each of them lets worker_process raise out of the task.          *)

\* The most images the walked folder holds.
MaxImages == 3
\* num_processes = max(1, min(mp.cpu_count() // 2, 12)), on a four-core host
num_processes == 2

\* f"PROCESS: {done}/{total}"
PoolProgress(done, total) ==
    "PROCESS: " \o ToString(done) \o "/" \o ToString(total)

\* A task the pool has not handed to a worker yet.
QueuedTask == [pc |-> "queued", value |-> 0, incs |-> 0, raised |-> FALSE,
               printed |-> 0]

InitPool ==
    /\ JobsIdle
    /\ ClusterIdle
    /\ InstancesIdle
    /\ pool_pc = "start"
    /\ total_images \in 0..MaxImages
    /\ counter = 0
    /\ lock = 0
    /\ task = [i \in 1..total_images |-> QueuedTask]
    /\ pool_stdout = << >>

poolFrame == <<jobVars, clusterVars, inst>>

\* The parent up to map_async.  With no image it returns after STATUS: BEGIN.
\* The print of PROCESS: 0/n is not flushed by print itself; starting the
\* manager process flushes the standard streams before any worker exists.
PoolBegin ==
    /\ pool_pc = "start"
    /\ IF total_images = 0
       THEN /\ pool_stdout' = Append(pool_stdout, "STATUS: BEGIN")
            /\ pool_pc' = "returned"
       ELSE /\ pool_stdout' = pool_stdout
                                \o <<"STATUS: BEGIN",
                                     PoolProgress(0, total_images)>>
            /\ pool_pc' = "mapping"
    /\ UNCHANGED <<poolFrame, total_images, counter, lock, task>>

\* original_images_dir does not exist: FileNotFoundError after STATUS: BEGIN.
PoolBeginRaises ==
    /\ pool_pc = "start"
    /\ total_images = 0
    /\ pool_stdout' = Append(pool_stdout, "STATUS: BEGIN")
    /\ pool_pc' = "raised"
    /\ UNCHANGED <<poolFrame, total_images, counter, lock, task>>

Running == { i \in DOMAIN task : task[i].pc \notin {"queued", "finished"} }

\* A free worker takes the next task of the list.
TakeTask(i) ==
    /\ pool_pc = "mapping"
    /\ i \in DOMAIN task
    /\ task[i].pc = "queued"
    /\ \A j \in 1..(i - 1) : task[j].pc # "queued"
    /\ Cardinality(Running) < num_processes
    /\ task' = [task EXCEPT ![i].pc = "try"]
    /\ UNCHANGED <<poolFrame, pool_pc, total_images, counter, lock, pool_stdout>>

\* The try block: it ends, or it raises an Exception that the except block
\* logs.  Either way the finally block is next.
TryBody(i) ==
    /\ i \in DOMAIN task
    /\ task[i].pc = "try"
    /\ \E raises \in BOOLEAN :
          task' = [task EXCEPT ![i].pc = "finally", ![i].raised = raises]
    /\ UNCHANGED <<poolFrame, pool_pc, total_images, counter, lock, pool_stdout>>

\* A variant of Acquire: the with statement does not wait for the lock.
AcquireWithoutWaiting(i) ==
    /\ i \in DOMAIN task
    /\ task[i].pc = "finally"
    /\ lock' = i
    /\ task' = [task EXCEPT ![i].pc = "locked"]
    /\ UNCHANGED <<poolFrame, pool_pc, total_images, counter, pool_stdout>>

\* `with lock:` enters when no other task holds the lock.
Acquire(i) ==
    /\ i \in DOMAIN task
    /\ task[i].pc = "finally"
    /\ lock = 0
    /\ lock' = i
    /\ task' = [task EXCEPT ![i].pc = "locked"]
    /\ UNCHANGED <<poolFrame, pool_pc, total_images, counter, pool_stdout>>

\* counter.value += 1, first half: the read.
ReadCounter(i) ==
    /\ i \in DOMAIN task
    /\ task[i].pc = "locked"
    /\ task' = [task EXCEPT ![i].pc = "read", ![i].value = counter]
    /\ UNCHANGED <<poolFrame, pool_pc, total_images, counter, lock, pool_stdout>>

\* counter.value += 1, second half: the write.
WriteCounter(i) ==
    /\ i \in DOMAIN task
    /\ task[i].pc = "read"
    /\ counter' = task[i].value + 1
    /\ task' = [task EXCEPT ![i].pc = "written", ![i].incs = @ + 1]
    /\ UNCHANGED <<poolFrame, pool_pc, total_images, lock, pool_stdout>>

\* print(f"PROCESS: {counter.value}/{total_images}", flush=True)
PrintProgress(i) ==
    /\ i \in DOMAIN task
    /\ task[i].pc = "written"
    /\ pool_stdout' = Append(pool_stdout, PoolProgress(counter, total_images))
    /\ task' = [task EXCEPT ![i].pc = "printed", ![i].printed = counter]
    /\ UNCHANGED <<poolFrame, pool_pc, total_images, counter, lock>>

\* The end of the with block releases the lock, and the task is over.
Release(i) ==
    /\ i \in DOMAIN task
    /\ task[i].pc = "printed"
    /\ lock' = 0
    /\ task' = [task EXCEPT ![i].pc = "finished"]
    /\ UNCHANGED <<poolFrame, pool_pc, total_images, counter, pool_stdout>>

\* result.ready(): every task is over.  The parent prints STATUS: DONE.
PoolDone ==
    /\ pool_pc = "mapping"
    /\ \A i \in DOMAIN task : task[i].pc = "finished"
    /\ pool_stdout' = Append(pool_stdout, "STATUS: DONE")
    /\ pool_pc' = "done"
    /\ UNCHANGED <<poolFrame, total_images, counter, lock, task>>

NextPool ==
    \/ PoolBegin
    \/ PoolBeginRaises
    \/ \E i \in 1..MaxImages : TakeTask(i)
    \/ \E i \in 1..MaxImages : TryBody(i)
    \/ \E i \in 1..MaxImages : Acquire(i)
    \/ \E i \in 1..MaxImages : ReadCounter(i)
    \/ \E i \in 1..MaxImages : WriteCounter(i)
    \/ \E i \in 1..MaxImages : PrintProgress(i)
    \/ \E i \in 1..MaxImages : Release(i)
    \/ PoolDone

SpecPool == InitPool /\ [][NextPool]_vars

-----------------------------------------------------------------------------
(* Claims about the cache API, checked under SpecCache. *)

\* The key of a stored item <<image_id, bbox, embedding_type, embedding>>.
KeyOf(item) == <<item[1], bbox_to_hash(item[2]), item[3]>>

\* The positions of the stores in h that went to key.
StoresTo(h, key) == { i \in 1..Len(h) : KeyOf(h[i]) = key }

\* What the most recent store to key left there: its vector cast to float32.
MostRecentStore(h, key) ==
    IF StoresTo(h, key) = {} THEN None
    ELSE LET last == CHOOSE i \in StoresTo(h, key) :
                        \A j \in StoresTo(h, key) : j <= i
         IN  Some([c \in 1..Len(h[last][4]) |-> AsFloat32(h[last][4][c])])

KeysStored(h) == { KeyOf(h[i]) : i \in 1..Len(h) }

\* C1: after any sequence of store_embedding / store_embeddings_batch calls,
\* get_embedding(image_id, bbox, type) returns the float32 vector of the most
\* recent store to the key (image_id, bbox_to_hash(bbox), type), and None
\* when no store went to that key.
C1_GetReturnsMostRecentStore ==
    /\ ret.op = "get_embedding" =>
          ret.value = MostRecentStore(history,
                          <<ret.args[1], bbox_to_hash(ret.args[2]), ret.args[3]>>)
    /\ \A image_id \in ClientImages, bbox \in ClientBoxes, t \in ClientTypes :
          get_embedding(db, image_id, bbox, t)
              = MostRecentStore(history, <<image_id, bbox_to_hash(bbox), t>>)

\* A get that hits a key stored twice, with vectors whose float32 casts differ.
C1_Witness ==
    /\ ret.op = "get_embedding"
    /\ ret.value # None
    /\ \E i, j \in 1..Len(history) :
          /\ i < j
          /\ KeyOf(history[i]) = KeyOf(history[j])
          /\ KeyOf(history[j]) = <<ret.args[1], bbox_to_hash(ret.args[2]), ret.args[3]>>
          /\ history[i][4] # history[j][4]
          /\ ret.value = Some(<<6, 8>>)

\* C2: in every state reachable by store_embedding and store_embeddings_batch
\* calls the table holds at most one row per (image_id, bbox_hash,
\* embedding_type); count_embeddings() is the number of distinct keys ever
\* stored and count_embeddings(t) the number of distinct keys stored with
\* type t.
C2_OneRecordPerKey ==
    /\ \A r1, r2 \in db :
          (/\ r1.image_id = r2.image_id
           /\ r1.bbox_hash = r2.bbox_hash
           /\ r1.embedding_type = r2.embedding_type) => r1 = r2
    /\ count_embeddings(db, "") = Cardinality(KeysStored(history))
    /\ \A t \in ClientTypes :
          count_embeddings(db, t)
              = Cardinality({ k \in KeysStored(history) : k[3] = t })
    /\ ret.op = "count_embeddings" =>
          ret.value = Some(Cardinality(
              { k \in KeysStored(history) : ret.args[1] = "" \/ k[3] = ret.args[1] }))

\* A count by type taken after a store replaced a record of that type.
C2_Witness ==
    /\ ret.op = "count_embeddings"
    /\ ret.args[1] # ""
    /\ ret.value = Some(1)
    /\ Cardinality({ i \in 1..Len(history) : history[i][3] = ret.args[1] }) = 2
    /\ Cardinality(db) = 1

\* Truncation of a non-negative coordinate, said without division: the
\* integer n with n <= t/10 < n + 1 (the coordinates of the model are below
\* 13 px).
Truncated(t) == CHOOSE n \in 0..12 : 10 * n <= t /\ t < 10 * n + 10

SameTruncation(b1, b2) == \A c \in 1..4 : Truncated(b1[c]) = Truncated(b2[c])

\* The hash of the boxes of the model and of two more, [1.9, 9.9, 0, 12.5]
\* and [3.7, 1.2, 5.9, 4.1], is the four truncations joined in order.
HashIsTruncationsJoined ==
    /\ bbox_to_hash(<<12, 37, 41, 59>>) = "1_3_4_5"
    /\ bbox_to_hash(<<10, 30, 40, 50>>) = "1_3_4_5"
    /\ \A bbox \in ClientBoxes \cup { <<19, 99, 0, 125>>, <<37, 12, 59, 41>> } :
          bbox_to_hash(bbox) =
              ToString(Truncated(bbox[1])) \o "_" \o ToString(Truncated(bbox[2]))
                  \o "_" \o ToString(Truncated(bbox[3])) \o "_"
                  \o ToString(Truncated(bbox[4]))

\* The pairs of boxes of the model whose coordinates truncate alike.
CollidingBoxes ==
    { p \in ClientBoxes \X ClientBoxes : SameTruncation(p[1], p[2]) }

\* C3: bbox_to_hash(bbox) is the four coordinates, each truncated (not
\* rounded) to an integer, joined with "_" in the order x1, y1, x2, y2; two
\* boxes whose coordinates truncate to the same integers, such as
\* [1.2, 3.7, 4.1, 5.9] and [1, 3, 4, 5], address the same record in get and
\* in store.
C3_HashTruncatesAndCollides ==
    /\ HashIsTruncationsJoined
    /\ \A p \in CollidingBoxes, image_id \in ClientImages, t \in ClientTypes :
          /\ get_embedding(db, image_id, p[1], t) = get_embedding(db, image_id, p[2], t)
          /\ (/\ history # << >>
              /\ history[Len(history)] \in
                    { <<image_id, p[1], t, v>> : v \in ClientVectors })
             => get_embedding(db, image_id, p[2], t)
                    = Some(ToBytes(history[Len(history)][4]))

\* A vector stored under [1.2, 3.7, 4.1, 5.9] is returned by a get under
\* [1, 3, 4, 5].
C3_Witness ==
    /\ history # << >>
    /\ history[Len(history)][2] = <<12, 37, 41, 59>>
    /\ ret.op = "get_embedding"
    /\ ret.args[2] = <<10, 30, 40, 50>>
    /\ ret.args[1] = history[Len(history)][1]
    /\ ret.args[3] = history[Len(history)][3]
    /\ ret.value = Some(ToBytes(history[Len(history)][4]))

-----------------------------------------------------------------------------
(* Claims about the dispatcher of reid_v2.run, checked under Spec. *)

\* Detection i has been through the categorisation loop.
Dispatched(i) ==
    /\ i \in 1..Len(detections)
    /\ pc \in {"categorize", "adapter", "full", "combined", "done"}
    /\ Len(detections) >= 2
    /\ pc = "categorize" => i < loop

\* The categorisation loop has ended and no batch has run: the database is
\* the one the lookups saw.
JustCategorized == pc = "adapter" /\ loop = 0

InTier1(i) ==
    /\ cache
    /\ detections[i].image_id # None
    /\ CacheKey(detections[i]) \in DOMAIN cached_reid

InTier2(i) == \E k \in 1..Len(has_raw) : has_raw[k].idx = i

InTier3(i) == \E k \in 1..Len(needs_full) : needs_full[k] = i

\* A record of the given variant exists for detection i.
HasRecord(i, embedding_type) ==
    /\ detections[i].image_id # None
    /\ get_embedding(db, detections[i].image_id[1], detections[i].bbox,
                     embedding_type) # None

\* The detections handed to the network named op (forward, forward_from_raw).
HandedTo(op) ==
    UNION { Range(trace[k].args[1]) :
              k \in { h \in 1..Len(trace) : trace[h].op = op } }

\* C4: with a working cache every dispatched detection is in exactly one of
\* the three tiers and in each work list at most once; the tier is the first
\* in the order final record, intermediate record, nothing, so a detection
\* with a final record is in tier 1 also when an intermediate record exists;
\* and a tier-1 detection is never handed to the adapter or to the backbone.
C4_OneTierInPriorityOrder ==
    \A i \in 1..Len(detections) :
        (Dispatched(i) /\ cache) =>
            /\ Cardinality({ t \in {1, 2, 3} :
                    \/ t = 1 /\ InTier1(i)
                    \/ t = 2 /\ InTier2(i)
                    \/ t = 3 /\ InTier3(i) }) = 1
            /\ Cardinality({ k \in 1..Len(has_raw) : has_raw[k].idx = i }) <= 1
            /\ Cardinality({ k \in 1..Len(needs_full) : needs_full[k] = i }) <= 1
            /\ (pc = "categorize" \/ JustCategorized) =>
                  /\ HasRecord(i, reid_embedding_type) => InTier1(i)
                  /\ (~HasRecord(i, reid_embedding_type)
                        /\ HasRecord(i, raw_embedding_type)) => InTier2(i)
                  /\ (~HasRecord(i, reid_embedding_type)
                        /\ ~HasRecord(i, raw_embedding_type)) => InTier3(i)
            /\ InTier1(i) => i \notin HandedTo("forward_from_raw")
                                        \cup HandedTo("forward")

\* A finished run in which a detection with both records was served from
\* the cache while the adapter and the backbone ran for other detections.
C4_Witness ==
    /\ pc = "done"
    /\ cache
    /\ HandedTo("forward_from_raw") # {}
    /\ HandedTo("forward") # {}
    /\ \E i \in 1..Len(detections) :
          /\ InTier1(i)
          /\ HasRecord(i, reid_embedding_type)
          /\ HasRecord(i, RAW_FOR_ADAPTER_TYPE)

PositionOf(i) ==
    CHOOSE p \in 1..Len(Merged(detection_ids)) : Merged(detection_ids)[p] = i

\* C6: with a working cache, when the vectors are combined and clustering
\* has not been called, every surviving detection that carries an image_id
\* and was served by the adapter-only or the full tier has a record under
\* (image_id, bbox_to_hash(bbox), final variant), the key of the tier
\* lookup, and the record equals the vector used for the detection.
C6_WrittenBackBeforeClustering ==
    (pc = "combined" /\ cache) =>
        \A i \in Range(Merged(detection_ids)) :
            (detections[i].image_id # None /\ (InTier2(i) \/ InTier3(i))) =>
                /\ get_embedding(db, detections[i].image_id[1], detections[i].bbox,
                                 reid_embedding_type)
                      = Some(all_embeddings[PositionOf(i)])
                /\ \E k \in 1..Len(trace) :
                      /\ trace[k].op = "get_embedding"
                      /\ trace[k].args = <<detections[i].image_id[1],
                                           detections[i].bbox, reid_embedding_type>>

\* Before clustering: an adapter-tier and two full-tier detections with
\* image ids and different keys, all written back.
C6_Witness ==
    /\ pc = "combined"
    /\ cache
    /\ Len(all_embeddings) >= 3
    /\ \E i \in Range(Merged(detection_ids)) :
          InTier2(i) /\ detections[i].image_id # None
    /\ \E i \in Range(Merged(detection_ids)), j \in Range(Merged(detection_ids)) :
          /\ InTier3(i) /\ detections[i].image_id # None
          /\ InTier3(j) /\ detections[j].image_id # None
          /\ CacheKey(detections[i]) # CacheKey(detections[j])

\* The ids the output lists, and whether detection i is among them.
OutputIds ==
    IF output = None THEN {}
    ELSE UNION { Range(output[1].individuals[c].detection_ids) :
                    c \in 1..Len(output[1].individuals) }

Appears(i) == detections[i].detection_id \in OutputIds

LoadFails(i) == detections[i].image_path \in badImages

\* Detection i was handed to the network op with the day flag is_day.
HandedWithFlag(op, i, is_day) ==
    \E k \in 1..Len(trace) :
        /\ trace[k].op = op
        /\ \E p \in 1..Len(trace[k].args[1]) :
              trace[k].args[1][p] = i /\ trace[k].args[2][p] = is_day

\* The guards of the steps of a job: some step can be taken.
CanStep ==
    \/ pc = "begin"
    \/ pc = "cache_init"
    \/ pc = "shortcuts" /\ Len(detections) = 0
    \/ pc = "shortcuts" /\ Len(detections) = 1
    \/ pc = "shortcuts" /\ Len(detections) >= 2
    \/ pc = "categorize" /\ loop \in 1..Len(detections)
    \/ pc = "adapter" /\ loop < Len(has_raw)
    \/ pc = "adapter" /\ loop >= Len(has_raw)
    \/ pc = "full" /\ loop < Len(needs_full)
    \/ pc = "full" /\ loop >= Len(needs_full)
    \/ pc = "combined" /\ Len(all_embeddings) = 0
    \/ pc = "combined" /\ Len(all_embeddings) > 0
    \/ pc = "detect_begin"
    \/ pc = "detect_cache_init"
    \/ pc = "detect_pairs" /\ Len(image_bbox_pairs) = 0
    \/ pc = "detect_pairs" /\ Len(image_bbox_pairs) > 0
    \/ pc = "detect_first_pass" /\ loop \in 1..Len(image_bbox_pairs)
    \/ pc = "detect_second_pass" /\ loop < Len(to_process)
    \/ pc = "detect_second_pass" /\ loop >= Len(to_process)

\* A job is never stuck before its end.
NeverStuck == pc \in {"done", "detect_done"} \/ CanStep

\* A measure of the work a job has left: the stages ahead, then the
\* iterations the running loop has left.
Rank ==
    LET stage == CASE pc = "begin" -> 7
                   [] pc = "cache_init" -> 6
                   [] pc \in {"shortcuts", "detect_begin"} -> 5
                   [] pc \in {"categorize", "detect_cache_init"} -> 4
                   [] pc \in {"adapter", "detect_pairs"} -> 3
                   [] pc \in {"full", "detect_first_pass"} -> 2
                   [] pc \in {"combined", "detect_second_pass"} -> 1
                   [] OTHER -> 0
        left == CASE pc = "categorize" -> Len(detections) - loop
                  [] pc = "adapter" -> Max(0, Len(has_raw) - loop)
                  [] pc = "full" -> Max(0, Len(needs_full) - loop)
                  [] pc = "detect_first_pass" -> Len(image_bbox_pairs) - loop
                  [] pc = "detect_second_pass" -> Max(0, Len(to_process) - loop)
                  [] OTHER -> 0
    IN  100 * stage + left

C8_AlwaysMiss ==
    cacheMode = "raises" =>
        /\ ~cache
        /\ \A k \in 1..Len(trace) :
              trace[k].op \notin {"get_embedding", "store_embeddings_batch"}
        /\ cached_reid = << >> /\ has_raw = << >> /\ cached_count = 0
        /\ \A i \in 1..Len(detections) : Dispatched(i) => InTier3(i)
        /\ (pc = "done" /\ Len(detections) >= 2) =>
              HandedTo("forward")
                 = { i \in 1..Len(detections) : ~LoadFails(i) }
        /\ pc = "done" =>
              output # None /\ stdout[Len(stdout)] = "STATUS: DONE"
        /\ pc \in {"detect_second_pass", "detect_done"} =>
              to_process = [i \in 1..Len(image_bbox_pairs) |-> i]
        /\ pc = "detect_done" =>
              /\ HandedTo("get_intermediate_layers") = 1..Len(image_bbox_pairs)
              /\ Len(image_bbox_pairs) > 0 =>
                    /\ output # None
                    /\ \A i \in 1..Len(image_bbox_pairs) :
                          output[1].predictions[i].classified # None
              /\ stdout[Len(stdout)] = "STATUS: DONE"
        /\ NeverStuck

\* C8: when the constructor of EmbeddingCache raises at the start of a
\* re-identification or a detection run, the run has no cache: no lookup
\* and no store is ever issued and the database stays as it was, every item
\* is sent to full computation, and the run ends with its output written
\* and STATUS: DONE as its last line; it is never stuck on the way and each
\* step leaves less work.
C8_CacheFailureDegradesToAlwaysMiss ==
    /\ [](C8_AlwaysMiss)
    /\ [][cacheMode = "raises" => (db' = db /\ Rank' < Rank)]_vars

\* A finished re-identification run whose cache constructor raised: a
\* detection whose final record is in the database was nevertheless sent
\* through the full model.
C8_Witness ==
    /\ pc = "done"
    /\ cacheMode = "raises"
    /\ Len(detections) >= 2
    /\ \E i \in 1..Len(detections) :
          /\ HasRecord(i, reid_embedding_type)
          /\ i \in HandedTo("forward")

\* What C9 says of one state.
C9_Outputs ==
    /\ NeverStuck
    /\ pc = "done" =>
        /\ output # None
        /\ stdout[Len(stdout)] = "STATUS: DONE"
        /\ Len(detections) = 0 => output = Some([individuals |-> << >>])
        /\ (Len(detections) >= 2
              /\ \A i \in 1..Len(detections) : InTier3(i) /\ LoadFails(i))
             => output = Some([individuals |-> << >>])
        /\ Len(detections) = 1 =>
              output = Some([individuals |->
                        << [name |-> "ID-0",
                            detection_ids |-> << detections[1].detection_id >>] >>])

\* C9: a finished run wrote {"individuals": []} when the input list was
\* empty and when every detection was dropped by a failed load, and wrote
\* the single individual ID-0 holding the detection's id when the input had
\* exactly one detection; it ended with STATUS: DONE; and every run ends:
\* it is never stuck and each step leaves less work.
C9_EmptyAndSingleOutputs == [](C9_Outputs) /\ [][Rank' < Rank]_vars

\* A finished run on several detections, all dropped by failed loads.
C9_Witness ==
    /\ pc = "done"
    /\ Len(detections) >= 2
    /\ \A i \in 1..Len(detections) : InTier3(i) /\ LoadFails(i)
    /\ output = Some([individuals |-> << >>])

\* C10 as written: compute_distance_matrix and process_dist_mat_v2 are
\* called with at least two embeddings only.
C10_ClusteringOnlyWithTwoOrMore ==
    \A k \in 1..Len(trace) :
        trace[k].op \in {"compute_distance_matrix", "process_dist_mat_v2"}
            => trace[k].args[1] >= 2

-----------------------------------------------------------------------------
(* Claims about the lookups of the cache API, checked under SpecLookup. *)

Lookups == {"get_embedding", "get_embeddings_batch", "count_embeddings"}

\* C15: a call of get_embedding, get_embeddings_batch or count_embeddings
\* leaves the rows of the table, and the id the next row would take, as they
\* were before the call, whether it finds a record or not.
C15_LookupsLeaveStoreUnchanged ==
    [][ret'.op \in Lookups => (db' = db /\ nextId' = nextId)]_vars

\* A get_embedding that found nothing in a table of two rows, after one
\* that found a record had left the rows in place.
C15_Witness ==
    /\ ret.op = "get_embedding"
    /\ ret.value = None
    /\ Cardinality(db) = 2

\* The key of item <<image_id, bbox>> in the mapping get_embeddings_batch
\* returns.
BatchKey(item) == ToString(item[1]) \o ":" \o bbox_to_hash(item[2])

\* C16: the mapping get_embeddings_batch(items, type) returned has an entry
\* for an item exactly when a record exists for (image_id,
\* bbox_to_hash(bbox), type), the entry being the vector of the record; it
\* has no entry for anything else and no None entry; for an empty list it is
\* the empty mapping.
C16_BatchGetOmitsMisses ==
    ret.op = "get_embeddings_batch" =>
        LET items == ret.args[1]
            t == ret.args[2]
        IN  /\ \A k \in 1..Len(items) :
                  /\ BatchKey(items[k]) \in DOMAIN ret.value
                        <=> SelectRows(db, items[k][1], bbox_to_hash(items[k][2]),
                                       t) # {}
                  /\ BatchKey(items[k]) \in DOMAIN ret.value =>
                        Some(ret.value[BatchKey(items[k])])
                            = get_embedding(db, items[k][1], items[k][2], t)
            /\ DOMAIN ret.value \subseteq { BatchKey(items[k]) : k \in 1..Len(items) }
            /\ \A key \in DOMAIN ret.value : ret.value[key] # None
            /\ Len(items) = 0 => ret.value = << >>

\* A batch lookup of two items of different keys of which exactly the second
\* has a record.
C16_Witness ==
    /\ ret.op = "get_embeddings_batch"
    /\ Len(ret.args[1]) = 2
    /\ BatchKey(ret.args[1][1]) # BatchKey(ret.args[1][2])
    /\ DOMAIN ret.value = { BatchKey(ret.args[1][2]) }

-----------------------------------------------------------------------------
(* Claims about the clustering functions, checked under SpecCluster.  An   *)
(* index of the model is the index of the code plus one.                   *)

\* The groups a returned call put index i in, as <<group, place>> pairs.
GroupsOf(i) ==
    { cp \in { <<c, k>> : c \in 1..Len(output_dict[1]), k \in 1..Len(keys_now) } :
        /\ cp[2] <= Len(output_dict[1][cp[1]])
        /\ output_dict[1][cp[1]][cp[2]] = i }

\* The internal key of the indices of group c.
KeyOfGroup(c) == keys_now[output_dict[1][c][1]]

\* C11: when process_dist_mat_v2 has returned on a masked distance matrix
\* of at least two rows, every index is in exactly one output group, no
\* group is empty, the groups hold indices only, the indices of a group
\* share one internal key, and the groups (output ids 0..K-1 in list order)
\* come in increasing order of that key.
C11_OutputIsPartitionInKeyOrder ==
    (cluster_pc = "returned" /\ Len(dist_matrix) >= 2) =>
        LET groups == output_dict[1]
        IN  /\ \A i \in 1..Len(dist_matrix) : Cardinality(GroupsOf(i)) = 1
            /\ \A c \in 1..Len(groups) :
                  /\ Len(groups[c]) > 0
                  /\ \A k \in 1..Len(groups[c]) :
                        /\ groups[c][k] \in 1..Len(dist_matrix)
                        /\ keys_now[groups[c][k]] = KeyOfGroup(c)
            /\ \A c \in 1..Len(groups), d \in 1..Len(groups) :
                  c < d => KeyOfGroup(c) < KeyOfGroup(d)
            /\ groups = process_dist_mat_v2(dist_matrix)

\* A call returned on four rows after every index had given up key 0: the
\* output id of a group is not its key.
C11_Witness ==
    /\ cluster_pc = "returned"
    /\ Len(dist_matrix) = 4
    /\ 0 \notin Range(keys_now)

\* The cosine distance of embeddings i and j of the input, before masking.
Distance(i, j) == One - Dot(emb_input[i], emb_input[j])

\* The input of the example: d(0,1) = 0.0005, d(2,3) = 0.0004 and every
\* cross-pair distance at least 0.01.
TwoTightPairs ==
    /\ Len(emb_input) = 4
    /\ Distance(1, 2) = 50000
    /\ Distance(3, 4) = 40000
    /\ \A i \in {1, 2}, j \in {3, 4} : Distance(i, j) >= 1000000

\* C12: on four embeddings with d(0,1) = 0.0005, d(2,3) = 0.0004 and cross
\* distances of at least 0.01, compute_distance_matrix followed by
\* process_dist_mat_v2 returns exactly two clusters, 0 = [0, 1] and
\* 1 = [2, 3] (indices 1..4 in the model).
C12_TwoPairsGiveTwoClusters ==
    (cluster_pc = "returned" /\ TwoTightPairs) =>
        output_dict = Some(<< <<1, 2>>, <<3, 4>> >>)

\* The call returned on such an input.
C12_Witness ==
    /\ cluster_pc = "returned"
    /\ TwoTightPairs
    /\ emb_input = << <<10000, 0>>, <<9995, 316>>, <<0, 10000>>, <<283, 9996>> >>
    /\ output_dict = Some(<< <<1, 2>>, <<3, 4>> >>)

-----------------------------------------------------------------------------
(* Claims about the output of a re-identification run, checked under Spec. *)

\* Detection i is not dropped: its load did not fail in the full tier.
Survives(i) == ~(InTier3(i) /\ LoadFails(i))

\* The surviving detections, in input order.
Survivors ==
    SelectSeq([i \in 1..Len(detections) |-> i], LAMBDA i : Survives(i))

\* The embedding of detection i itself: the final record of its key, or the
\* adapter on the intermediate record of its key, or the full model on its
\* crop.
EmbeddingOf(i) ==
    IF InTier1(i)
    THEN get_embedding(db, detections[i].image_id[1], detections[i].bbox,
                       reid_embedding_type)[1]
    ELSE IF InTier2(i)
    THEN forward_from_raw(
            get_embedding(db, detections[i].image_id[1], detections[i].bbox,
                          raw_embedding_type)[1],
            IF LoadFails(i) THEN 1 ELSE check_day_night(detections[i].image_path))
    ELSE forward(detections[i].image_path, detections[i].bbox,
                 check_day_night(detections[i].image_path))

\* The individuals that list the id of detection i, as <<individual, place>>.
ListedAt(i) ==
    { cp \in { <<c, k>> : c \in 1..Len(output[1].individuals),
                          k \in 1..Len(detections) } :
        /\ cp[2] <= Len(output[1].individuals[cp[1]].detection_ids)
        /\ output[1].individuals[cp[1]].detection_ids[cp[2]]
              = detections[i].detection_id }

\* C14: a finished run on at least two detections (their ids pairwise
\* distinct) that kept a detection wrote individuals named ID-0, ID-1, ...
\* in list order; individual c lists the ids of the surviving detections at
\* the positions of cluster c of the survivors' own embeddings, positions
\* counted in the surviving list; a surviving id is listed exactly once and
\* a dropped id nowhere.
C14_IndividualsListSurvivorsByCluster ==
    (pc = "done" /\ Len(detections) >= 2 /\ Len(Survivors) > 0) =>
        \A kept \in { Survivors } :
        \A own \in { [p \in 1..Len(kept) |-> EmbeddingOf(kept[p])] } :
        \A distance_mat \in { compute_distance_matrix(own) } :
        \A clusters \in { process_dist_mat_v2(distance_mat) } :
            /\ \A i \in 1..Len(detections), j \in 1..Len(detections) :
                  i # j => detections[i].detection_id # detections[j].detection_id
            /\ Len(output[1].individuals) = Len(clusters)
            /\ \A c \in 1..Len(output[1].individuals) :
                  /\ output[1].individuals[c].name = "ID-" \o ToString(c - 1)
                  /\ output[1].individuals[c].detection_ids =
                        [k \in 1..Len(clusters[c]) |->
                            detections[kept[clusters[c][k]]].detection_id]
            /\ \A i \in 1..Len(detections) :
                  Cardinality(ListedAt(i)) = (IF Survives(i) THEN 1 ELSE 0)

\* A finished run that dropped a detection standing before a kept one and
\* wrote two individuals.
C14_Witness ==
    /\ pc = "done"
    /\ Len(output[1].individuals) = 2
    /\ \E i \in 1..Len(detections), j \in 1..Len(detections) :
          i < j /\ ~Survives(i) /\ Survives(j)

-----------------------------------------------------------------------------
(* Claims about connections and concurrent writers, checked under          *)
(* SpecInstances.                                                          *)

\* C17: an instance that is not inside a call has no open connection and no
\* transaction, whether its last call returned or raised; inside a call,
\* from the connection to the finally clause, it has exactly one, opened by
\* that call.
C17_NoConnectionOutlivesItsCall ==
    \A p \in Instances :
        /\ inst[p].pc = "idle" => (inst[p].conns = 0 /\ inst[p].txn = None)
        /\ inst[p].pc # "idle" => inst[p].conns = 1

\* A batch store raised at its second item, after the INSERT of the first:
\* the instance is back between calls, its connection closed and the first
\* item rolled back, while the other instance is inside a call.
C17_Witness ==
    \E p \in Instances, q \in Instances :
        /\ inst[p].pc = "idle"
        /\ inst[p].how = "raised"
        /\ inst[p].call.op = "store_embeddings_batch"
        /\ inst[p].k = 1
        /\ inst[p].conns = 0
        /\ SelectRows(db, 2, bbox_to_hash(SharedBox),
                      REID_EMBEDDING_PREFIX \o "stoat") = {}
        /\ inst[q].pc = "connected"

\* The rows of the crop of image image_id, and the positions in history of
\* the committed stores to it (every call of the instances uses SharedBox
\* and the final variant).
RowsOfImage(image_id) == { r \in db : r.image_id = image_id }

CommittedTo(image_id) == { k \in 1..Len(history) : history[k][1] = image_id }

\* C18: whatever the interleaving of the two instances, the table holds at
\* most one row per key; the row of a key is the float32 blob of the vector
\* of the store to that key that committed last, so for the key both
\* instances write it is the whole vector of one of them; and once a store
\* to a key has committed there is exactly one row for it.
C18_ConcurrentStoresLeaveOneWholeRecord ==
    /\ \A image_id \in {SharedImage, 2} :
          LET rows == RowsOfImage(image_id)
              stores == CommittedTo(image_id)
          IN  /\ Cardinality(rows) <= 1
              /\ stores = {} => rows = {}
              /\ stores # {} =>
                    \E r \in rows :
                        /\ rows = {r}
                        /\ r.bbox_hash = bbox_to_hash(SharedBox)
                        /\ r.embedding_type = REID_EMBEDDING_PREFIX \o "stoat"
                        /\ \E last \in stores :
                              /\ \A k \in stores : k <= last
                              /\ r.embedding = ToBytes(history[last][4])
    /\ \A r \in RowsOfImage(SharedImage) :
          r.embedding \in { ToBytes(VectorOf(p)) : p \in Instances }

\* Both instances called store_embedding on the shared key, the second
\* connecting while the first was inside its call; both calls returned and
\* the row holds the vector of the one that committed last.
C18_Witness ==
    /\ \A p \in Instances :
          /\ inst[p].pc = "idle"
          /\ inst[p].calls = 1
          /\ inst[p].call.op = "store_embedding"
          /\ inst[p].how = "returned"
    /\ \E p \in Instances : inst[p].overlapped
    /\ Len(history) = 2
    /\ history[1][4] # history[2][4]
    /\ \E r \in db : r.embedding = ToBytes(history[2][4])
    /\ Cardinality(db) = 1

-----------------------------------------------------------------------------
(* A claim about the progress lines of a job, checked under Spec. *)

\* The values of batch_start of `range(0, total, batch_size)`.
BatchStarts(total) == { b \in 0..(total - 1) : b % batch_size = 0 }

\* C20 as written: when the embedding phase of a job is over, stdout holds
\* a line PROCESS: <done>/<total> for every batch of every tier (of the
\* adapter-only and the full tier of a re-identification run, of the second
\* pass of a detection run), a batch whose items all failed to load
\* included, with done = min(batch_start + batch_size, total) (plus the
\* crops served from the cache, in a detection run), so that the line of the
\* last batch has done = total.
C20_ProgressLineAfterEveryBatch ==
    /\ (pc \in {"combined", "done"} /\ Len(detections) >= 2) =>
          /\ \A b \in BatchStarts(Len(has_raw)) :
                Progress("PROCESS", b, Len(has_raw)) \in Range(stdout)
          /\ \A b \in BatchStarts(Len(needs_full)) :
                Progress("PROCESS", b, Len(needs_full)) \in Range(stdout)
    /\ pc = "detect_done" =>
          \A b \in BatchStarts(Len(to_process)) :
              ("PROCESS: "
                 \o ToString((IF b + batch_size < Len(to_process)
                              THEN b + batch_size ELSE Len(to_process))
                             + cached_count)
                 \o "/" \o ToString(Len(image_bbox_pairs))) \in Range(stdout)

-----------------------------------------------------------------------------
(* A claim about the worker pool, checked under SpecPool. *)

\* The tasks whose finally block has printed its line.
Reported == { i \in DOMAIN task : task[i].pc \in {"printed", "finished"} }

\* The lines on standard output when k workers have reported.
LinesAfter(k) ==
    <<"STATUS: BEGIN", PoolProgress(0, total_images)>>
    \o [d \in 1..k |-> PoolProgress(d, total_images)]

\* C19: under every interleaving of the worker processes, every image
\* increments the shared counter exactly once, also when its processing
\* raised; the PROCESS lines of the workers carry done = 1, 2, ..., total in
\* that order, with no duplicate and no gap (after the parent's 0/total
\* line); STATUS: DONE is printed only when the counter has reached total.
C19_EveryImageCountedOnceInOrder ==
    pool_pc \in {"mapping", "done"} =>
        /\ \A i \in DOMAIN task :
              task[i].incs = (IF task[i].pc \in {"written", "printed", "finished"}
                              THEN 1 ELSE 0)
        /\ counter = Cardinality({ i \in DOMAIN task : task[i].incs = 1 })
        /\ pool_stdout = LinesAfter(Cardinality(Reported))
                            \o (IF pool_pc = "done" THEN <<"STATUS: DONE">>
                                ELSE << >>)
        /\ pool_pc = "done" =>
              /\ counter = total_images
              /\ Cardinality(Reported) = total_images

\* A finished run in which the second image reported before the first, whose
\* processing raised.
C19_Witness ==
    /\ pool_pc = "done"
    /\ total_images >= 2
    /\ task[1].raised
    /\ task[1].printed = 2
    /\ task[2].printed = 1
    /\ pool_stdout[Len(pool_stdout)] = "STATUS: DONE"

-----------------------------------------------------------------------------
(* Claims about a run of reid_v2.run with its failures, checked under       *)
(* SpecRun.                                                                 *)

StatusMarkers == {"STATUS: BEGIN", "STATUS: PROCESSING", "STATUS: DONE"}

\* Every line of the form PROCESS: <done>/<total> a run of the model prints.
ProcessLines ==
    { "PROCESS: " \o ToString(done) \o "/" \o ToString(total) :
         done \in 0..(MaxDet + 1), total \in 0..(MaxDet + 1) }

\* The positions of line l on standard output.
PositionsOf(l) == { k \in 1..Len(stdout) : stdout[k] = l }

\* C21: on every run of reid_v2.run, STATUS: BEGIN is the first status
\* marker and is printed once; a run that returned has printed STATUS: DONE
\* once, as its last marker (and last line); STATUS: PROCESSING is printed at
\* most once, after BEGIN, before every PROCESS line and before DONE; a run
\* that ended with an exception has not printed STATUS: DONE.
C21_StatusMarkersInOrder ==
    LET markers == SelectSeq(stdout, LAMBDA l : l \in StatusMarkers)
    IN  /\ markers \in { << >>,
                         <<"STATUS: BEGIN">>,
                         <<"STATUS: BEGIN", "STATUS: PROCESSING">>,
                         <<"STATUS: BEGIN", "STATUS: DONE">>,
                         <<"STATUS: BEGIN", "STATUS: PROCESSING", "STATUS: DONE">> }
        /\ pc # "begin" => PositionsOf("STATUS: BEGIN") = {1}
        /\ \A k \in 1..Len(stdout) :
              stdout[k] \in ProcessLines =>
                 \E h \in 1..(k - 1) : stdout[h] = "STATUS: PROCESSING"
        /\ pc = "done" <=> PositionsOf("STATUS: DONE") = {Len(stdout)}
        /\ pc # "done" => PositionsOf("STATUS: DONE") = {}

\* A run that returned after BEGIN, PROCESSING, two PROCESS lines and DONE.
C21_Witness ==
    /\ pc = "done"
    /\ SelectSeq(stdout, LAMBDA l : l \in StatusMarkers)
          = <<"STATUS: BEGIN", "STATUS: PROCESSING", "STATUS: DONE">>
    /\ Cardinality({ k \in 1..Len(stdout) : stdout[k] \in ProcessLines }) >= 2

\* A run that ended with an exception after STATUS: PROCESSING.
C21_RaisedAfterProcessing ==
    /\ pc = "raised"
    /\ "STATUS: PROCESSING" \in Range(stdout)

\* The batches (lists of detection indices) handed to the network op.
BatchesOf(op) == { trace[k].args[1] : k \in { h \in 1..Len(trace) : trace[h].op = op } }

\* The safety half of C26: a batch handed to the adapter holds adapter-only
\* items, a batch handed to the full model holds full-tier items, and either
\* holds at most batch_size items.
C26_BatchesWithinOneTier ==
    /\ \A b \in BatchesOf("forward_from_raw") :
          /\ Len(b) <= batch_size
          /\ \A k \in 1..Len(b) : InTier2(b[k]) /\ ~InTier3(b[k])
    /\ \A b \in BatchesOf("forward") :
          /\ Len(b) <= batch_size
          /\ \A k \in 1..Len(b) : InTier3(b[k]) /\ ~InTier2(b[k])

\* C26 as written: every batch handed to the adapter or to the full model
\* holds items of one tier and at most batch_size of them, for every supplied
\* batch size, also when main.py supplied it: a run that got as far as
\* STATUS: PROCESSING and is over has handed every adapter-only item to the
\* adapter and every full-tier item that loads to the full model, in such
\* batches.
C26_EveryTierBatchedBySuppliedSize ==
    /\ C26_BatchesWithinOneTier
    /\ (pc \in {"done", "raised"} /\ "STATUS: PROCESSING" \in Range(stdout)) =>
          /\ HandedTo("forward_from_raw")
                = { i \in 1..Len(detections) : InTier2(i) }
          /\ HandedTo("forward")
                = { i \in 1..Len(detections) : InTier3(i) /\ ~LoadFails(i) }

-----------------------------------------------------------------------------
(* Claims about compute_distance_matrix and the row steps of                *)
(* process_dist_mat_v2, checked under SpecCluster.                          *)

\* 1 - <emb_r, emb_c> of the input list.
Unmasked(r, c) == One - Dot(emb_input[r], emb_input[c])

\* The cells of row r that compute_distance_matrix overwrote.
Masked(r) == { c \in 1..Len(dist_matrix) : dist_matrix[r][c] = Inf }

\* The input is three vectors, the first two identical, the third distinct.
TwoIdenticalAndOne ==
    /\ Len(emb_input) = 3
    /\ emb_input[1] = emb_input[2]
    /\ emb_input[3] # emb_input[1]

\* C22: the matrix compute_distance_matrix returns is 1 - E E^T except that
\* in every row exactly one cell is +infinity, the lowest-index cell that
\* holds the minimum of the row; for three vectors of which the first two are
\* identical and the third is distinct, row 0 has column 0 masked and keeps
\* the distance to vector 1, and row 1 has column 0 masked and keeps its
\* diagonal cell.
C22_FirstRowMinimumMasked ==
    cluster_pc # "embeddings" =>
        /\ Len(dist_matrix) = Len(emb_input)
        /\ \A r \in 1..Len(emb_input) :
              /\ Len(dist_matrix[r]) = Len(emb_input)
              /\ \E m \in 1..Len(emb_input) :
                    /\ Masked(r) = {m}
                    /\ \A c \in 1..Len(emb_input) : Unmasked(r, m) <= Unmasked(r, c)
                    /\ \A c \in 1..(m - 1) : Unmasked(r, m) < Unmasked(r, c)
              /\ \A c \in 1..Len(emb_input) :
                    c \notin Masked(r) => dist_matrix[r][c] = Unmasked(r, c)
        /\ TwoIdenticalAndOne =>
              /\ Masked(1) = {1}
              /\ dist_matrix[1][2] = Unmasked(1, 1)
              /\ Masked(2) = {1}
              /\ dist_matrix[2][2] = Unmasked(2, 2)

\* The matrix of <<10000, 0>> twice and a third vector: row 1 has column 0
\* masked and the distance 0 on its diagonal.
C22_Witness ==
    /\ cluster_pc # "embeddings"
    /\ TwoIdenticalAndOne
    /\ emb_input[1] = <<10000, 0>>
    /\ dist_matrix[2][1] = Inf
    /\ dist_matrix[2][2] = 0
    /\ dist_matrix[1][2] = 0

\* The keys before and after the step of row r of the running call.
KeysBefore(r) == IF r = 1 THEN [j \in 1..Len(dist_matrix) |-> -1] ELSE keys_log[r - 1]
KeysAfterStep(r) == keys_log[r]

\* The candidates of row r: the columns within the tolerance of the row's
\* minimum (the masked cell is infinitely far from it).
CandidatesOfRow(r) ==
    LET row == dist_matrix[r]
    IN  { j \in 1..Len(row) :
            /\ row[j] # Inf
            /\ \A c \in 1..Len(row) : row[j] - row[c] <= Tolerance }

\* The rows whose step found keys[r] assigned.
AssignedRows == { r \in 1..Len(keys_log) : KeysBefore(r)[r] # -1 }

\* C23: when row r is reached with keys[r] assigned, the step gives keys[r]
\* to every candidate of row r, whatever id the candidate had, and changes
\* no other key: an index that is no candidate keeps the id it had, also
\* when that id has just been overwritten at a candidate.
C23_AssignedRowPropagatesItsKey ==
    \A r \in AssignedRows :
        \A j \in 1..Len(dist_matrix) :
            KeysAfterStep(r)[j] = IF j \in CandidatesOfRow(r)
                                  THEN KeysBefore(r)[r]
                                  ELSE KeysBefore(r)[j]

\* A step of an assigned row that overwrote the different id of a candidate
\* while another index, no candidate, kept that id.
C23_Witness ==
    \E r \in AssignedRows :
        \E j \in CandidatesOfRow(r), h \in 1..Len(dist_matrix) :
            /\ KeysBefore(r)[j] \notin {-1, KeysBefore(r)[r]}
            /\ KeysAfterStep(r)[j] = KeysBefore(r)[r]
            /\ h \notin CandidatesOfRow(r)
            /\ KeysBefore(r)[h] = KeysBefore(r)[j]
            /\ KeysAfterStep(r)[h] = KeysBefore(r)[j]

\* The rows whose step found keys[r] unassigned.
UnassignedRows == { r \in 1..Len(keys_log) : KeysBefore(r)[r] = -1 }

\* The ids the candidates of row r held before its step.
IdsOfCandidates(r) == { KeysBefore(r)[j] : j \in CandidatesOfRow(r) } \ {-1}

\* C24: when row r is reached unassigned and no candidate has an id, r and
\* every candidate get the fresh id 1 + max(keys), which is 0 when every key
\* is -1; when some candidate has an id, r and every candidate end the step
\* with the least id found among the candidates; in both cases no key
\* outside r and the candidates changes.
C24_UnassignedRowTakesFreshOrLeastId ==
    \A r \in UnassignedRows :
        \E id \in -1..Len(dist_matrix) :
            /\ id = IF IdsOfCandidates(r) = {}
                    THEN 1 + MaxKey(KeysBefore(r))
                    ELSE CHOOSE m \in IdsOfCandidates(r) :
                            \A x \in IdsOfCandidates(r) : m <= x
            /\ (\A j \in 1..Len(dist_matrix) : KeysBefore(r)[j] = -1) => id = 0
            /\ \A j \in 1..Len(dist_matrix) :
                  KeysAfterStep(r)[j] = IF j = r \/ j \in CandidatesOfRow(r)
                                        THEN id ELSE KeysBefore(r)[j]

\* A call in which one unassigned row opened a fresh id above 0 and another
\* took the least of two different ids of its candidates.
C24_Witness ==
    /\ \E r \in UnassignedRows :
          /\ IdsOfCandidates(r) = {}
          /\ KeysAfterStep(r)[r] >= 1
    /\ \E r \in UnassignedRows :
          /\ Cardinality(IdsOfCandidates(r)) >= 2
          /\ \A j \in CandidatesOfRow(r) \cup {r} :
                \A x \in IdsOfCandidates(r) : KeysAfterStep(r)[j] <= x

\* Indices i and j are in one cluster of the returned dictionary.
Together(i, j) ==
    \E c \in 1..Len(output_dict[1]) :
        i \in Range(output_dict[1][c]) /\ j \in Range(output_dict[1][c])

\* C29 as written: for a masked distance matrix of two or more rows, when
\* process_dist_mat_v2 has returned, every index r is in the same output
\* cluster as at least one of the candidates of row r.
C29_EveryIndexWithACandidate ==
    (cluster_pc = "returned" /\ Len(dist_matrix) >= 2) =>
        \A r \in 1..Len(dist_matrix) :
            \E j \in CandidatesOfRow(r) : Together(r, j)

-----------------------------------------------------------------------------
(* Claims about the order of embeddings and about the boxes that are        *)
(* hashed, checked under Spec.                                              *)

\* The feature batch_dino_image_processing owes crop i: the backbone's
\* feature of the crop at its pixel box; for a file that cannot be opened
\* the code computes the feature of its dummy tensor.
FeatureOf(i) ==
    LET pair == image_bbox_pairs[i]
    IN  IF pair.filepath \in badImages THEN FeatureOfZeros
        ELSE Backbone(pair.filepath,
                      convert_bbox_normalized_to_absolute(
                          pair.bbox, ImageSize[1], ImageSize[2]))

\* C25: the list reid_v2.run hands to compute_distance_matrix holds, at
\* position p, the vector of the p-th surviving detection in input order,
\* whichever tier and batch served it; batch_dino_image_processing returns
\* at position i the feature of image_bbox_pairs[i], cached or computed.
C25_EmbeddingsInInputOrder ==
    /\ (pc \in {"combined", "done"} /\ Len(detections) >= 2) =>
          all_embeddings = [p \in 1..Len(Survivors) |-> EmbeddingOf(Survivors[p])]
    /\ (pc = "detect_done" /\ Len(image_bbox_pairs) > 0) =>
          all_features = [i \in 1..Len(image_bbox_pairs) |-> Some(FeatureOf(i))]

\* A finished re-identification run whose first three detections were
\* served by the full model, the cache and the adapter, in that order, with
\* batches of one item and of two.
C25_Witness ==
    /\ pc = "done"
    /\ Len(detections) >= 4
    /\ InTier3(1) /\ Survives(1)
    /\ InTier1(2)
    /\ InTier2(3)
    /\ Len(all_embeddings) >= 3
    /\ all_embeddings[1] # all_embeddings[2]

\* A finished detection run in which a cached crop stands between two
\* computed ones.
C25_DetectionWitness ==
    /\ pc = "detect_done"
    /\ Len(image_bbox_pairs) = 3
    /\ to_process = <<1, 3>>
    /\ cached_count = 1
    /\ all_features[2] # all_features[1]

\* The pixel boxes of the crops of one file of a detection run.
PixelBoxes(file) ==
    { convert_bbox_normalized_to_absolute(image_bbox_pairs[i].bbox,
                                          ImageSize[1], ImageSize[2]) :
        i \in { h \in 1..Len(image_bbox_pairs) :
                  image_bbox_pairs[h].filepath = file } }

\* The boxes the input document of a re-identification run gives for one
\* image id; the document holds pixel boxes.
InputBoxes(image_id) ==
    { detections[i].bbox :
        i \in { h \in 1..Len(detections) :
                  detections[h].image_id = Some(image_id) } }

\* C27 as written: every box that a lookup or a store of a detection run or
\* of a re-identification run hands to the cache is a box in pixel
\* coordinates of a crop of that image, also when the image cannot be
\* opened; a normalized box is never hashed.
C27_OnlyPixelBoxesHashed ==
    \A k \in 1..Len(trace) :
        LET boxes(image) == IF Len(image_bbox_pairs) > 0 THEN PixelBoxes(image)
                            ELSE InputBoxes(image)
        IN  /\ trace[k].op = "get_embedding" =>
                  trace[k].args[2] \in boxes(trace[k].args[1])
            /\ trace[k].op = "store_embeddings_batch" =>
                  \A m \in 1..Len(trace[k].args[1]) :
                      trace[k].args[1][m][2] \in boxes(trace[k].args[1][m][1])

\* C27 with the files that cannot be opened set aside.
C27_PixelBoxesForReadableFiles ==
    \A k \in 1..Len(trace) :
        LET boxes(image) == IF Len(image_bbox_pairs) > 0 THEN PixelBoxes(image)
                            ELSE InputBoxes(image)
            readable(image) == Len(image_bbox_pairs) = 0 \/ image \notin badImages
        IN  /\ (trace[k].op = "get_embedding" /\ readable(trace[k].args[1])) =>
                  trace[k].args[2] \in boxes(trace[k].args[1])
            /\ trace[k].op = "store_embeddings_batch" =>
                  \A m \in 1..Len(trace[k].args[1]) :
                      readable(trace[k].args[1][m][1]) =>
                          trace[k].args[1][m][2] \in boxes(trace[k].args[1][m][1])

\* The crops of a detection run whose file cannot be opened.
FailedCrops ==
    { i \in 1..Len(image_bbox_pairs) : image_bbox_pairs[i].filepath \in badImages }

\* The records the run has stored so far, as <<image_id, bbox, vector>>.
StoredItems ==
    UNION { Range(trace[k].args[1]) :
              k \in { h \in 1..Len(trace) : trace[h].op = "store_embeddings_batch" } }

\* C28 as written: in batch_dino_image_processing a crop whose image fails
\* to open is skipped: no record is stored for it, none under the
\* placeholder box and none holding the feature of a placeholder input, and
\* no feature of it reaches the classifiers, while the other crops of the
\* batch get their features.
C28_FailedCropSkipped ==
    (Len(image_bbox_pairs) > 0) =>
        /\ \A item \in StoredItems :
              /\ item[1] \notin badImages
              /\ item[2] # <<0, 0, 0, 0>>
              /\ item[3] # FeatureOfZeros
        /\ pc = "detect_done" =>
              \A i \in 1..Len(image_bbox_pairs) :
                  output[1].predictions[i].classified
                     = (IF i \in FailedCrops THEN None ELSE Some(FeatureOf(i)))

\* C28 for the crops that load: each gets its own feature.
C28_OtherCropsProcessed ==
    (pc = "detect_done" /\ Len(image_bbox_pairs) > 0) =>
        \A i \in 1..Len(image_bbox_pairs) :
            i \notin FailedCrops =>
                output[1].predictions[i].classified = Some(FeatureOf(i))

-----------------------------------------------------------------------------
(* A claim about a batch store that fails, checked under SpecInstances. *)

\* The steps instance p takes inside a call of store_embeddings_batch.
BatchStoreStep(p) ==
    /\ inst[p].pc # "idle"
    /\ inst[p].call.op = "store_embeddings_batch"
    /\ inst'[p] # inst[p]

\* C30: a call of store_embeddings_batch changes the table in its commit
\* only, and a call that raised at an item, after the INSERT of the items
\* before it, goes to the close of its connection without one: over every
\* step of a call that raises, the rows of the table, the id of the next
\* row, and so what get_embedding and count_embeddings return for the items
\* of the call, stay what they were.
C30_FailedBatchStoreLeavesNoItem ==
    [][\A p \in Instances :
          BatchStoreStep(p) =>
              /\ inst'[p].pc # "returning" =>
                    /\ db' = db
                    /\ nextId' = nextId
                    /\ count_embeddings(db', REID_EMBEDDING_PREFIX \o "stoat")
                          = count_embeddings(db, REID_EMBEDDING_PREFIX \o "stoat")
                    /\ \A k \in 1..Len(inst[p].call.items) :
                          get_embedding(db', inst[p].call.items[k][1],
                                        inst[p].call.items[k][2],
                                        REID_EMBEDDING_PREFIX \o "stoat")
                            = get_embedding(db, inst[p].call.items[k][1],
                                            inst[p].call.items[k][2],
                                            REID_EMBEDDING_PREFIX \o "stoat")
              /\ inst[p].pc = "raised" => inst'[p].pc = "idle"]_vars

\* An instance stored a batch of two items, then called
\* store_embeddings_batch with an item whose embedding is None in second
\* place: the call raised after the INSERT of its first item, and the table
\* holds the two rows of the first call, under the ids they had, and no row
\* of the second.
C30_Witness ==
    \E p \in Instances :
        /\ inst[p].pc = "idle"
        /\ inst[p].calls = 2
        /\ inst[p].how = "raised"
        /\ inst[p].call.op = "store_embeddings_batch"
        /\ inst[p].call.items[2][3] = None
        /\ inst[p].k = 1
        /\ Len(history) = 2
        /\ Cardinality(db) = 2
        /\ \A r \in db : r.id \in {1, 2} /\ r.embedding = ToBytes(VectorOf(p))
        /\ nextId = 3

====
